---- MODULE Spec2Model ----
(***************************************************************************)
(* Model of the deltafi swap program: the Decimal fixed-point arithmetic,  *)
(* the PMM curve (curve/calc.rs), PoolState (curve/pool.rs), the fee and   *)
(* liquidity-provider records, and the instruction handlers of             *)
(* processor.rs and admin.rs.                                              *)
(*                                                                         *)
(* A Decimal is the U192 scaled value itself, written in base 1000 as a    *)
(* little-endian sequence of limbs without leading zero limbs (zero is     *)
(* <<>>), so that WAD = 10^9 is a shift by three limbs and every operation  *)
(* is computed on the scaled integer as the code computes it.  A failed    *)
(* Result is a one-limb sequence holding a negative error code.            *)
(***************************************************************************)
EXTENDS Integers, Sequences, FiniteSets, TLC


----------------------------------------------------------------------------
(* Unsigned big integers: base-1000 limbs, least significant first.        *)

Base == 1000

Max2(a, b) == IF a >= b THEN a ELSE b

Limb(s, i) == IF i >= 1 /\ i <= Len(s) THEN s[i] ELSE 0

RECURSIVE Norm(_)
Norm(s) ==
    IF s = <<>> THEN s
    ELSE IF s[Len(s)] = 0 THEN Norm(SubSeq(s, 1, Len(s) - 1))
    ELSE s

\* propagate carries through the column sums cols[1..n]
RECURSIVE CarryFrom(_, _, _, _)
CarryFrom(cols, n, i, c) ==
    IF i > n
    THEN IF c = 0 THEN <<>> ELSE <<c % Base>> \o CarryFrom(cols, n, i, c \div Base)
    ELSE <<(cols[i] + c) % Base>> \o CarryFrom(cols, n, i + 1, (cols[i] + c) \div Base)

BAdd(a, b) ==
    CarryFrom([i \in 1..Max2(Len(a), Len(b)) |-> Limb(a, i) + Limb(b, i)],
              Max2(Len(a), Len(b)), 1, 0)

RECURSIVE CmpFrom(_, _, _)
CmpFrom(a, b, i) ==
    IF i = 0 THEN 0
    ELSE IF a[i] > b[i] THEN 1
    ELSE IF a[i] < b[i] THEN -1
    ELSE CmpFrom(a, b, i - 1)

\* -1, 0, 1 as a < b, a = b, a > b
BCmp(a, b) ==
    IF Len(a) > Len(b) THEN 1
    ELSE IF Len(a) < Len(b) THEN -1
    ELSE CmpFrom(a, b, Len(a))

RECURSIVE SubFrom(_, _, _, _)
SubFrom(a, b, i, borrow) ==
    IF i > Len(a) THEN <<>>
    ELSE IF a[i] - Limb(b, i) - borrow < 0
    THEN <<a[i] - Limb(b, i) - borrow + Base>> \o SubFrom(a, b, i + 1, 1)
    ELSE <<a[i] - Limb(b, i) - borrow>> \o SubFrom(a, b, i + 1, 0)

\* a - b for a >= b
BSub(a, b) == Norm(SubFrom(a, b, 1, 0))

RECURSIVE ColSum(_, _, _, _)
ColSum(a, b, k, i) ==
    IF i > Len(a) \/ i > k THEN 0
    ELSE (IF k + 1 - i <= Len(b) THEN a[i] * b[k + 1 - i] ELSE 0)
         + ColSum(a, b, k, i + 1)

BMul(a, b) ==
    IF a = <<>> \/ b = <<>> THEN <<>>
    ELSE Norm(CarryFrom([k \in 1..(Len(a) + Len(b) - 1) |-> ColSum(a, b, k, 1)],
                        Len(a) + Len(b) - 1, 1, 0))

\* a * m for a machine-size m < 10^6
BMulSmall(a, m) ==
    IF a = <<>> \/ m = 0 THEN <<>>
    ELSE Norm(CarryFrom([i \in 1..Len(a) |-> a[i] * m], Len(a), 1, 0))

\* a value a reader of the model never obtains: evaluating it stops the check
OutOfModelRange == CHOOSE n \in {} : TRUE

\* the machine integer of a big integer below 2 * 10^9
BigToInt(a) ==
    IF Len(a) > 4 \/ Limb(a, 4) > 1 THEN OutOfModelRange
    ELSE Limb(a, 1) + Base * Limb(a, 2) + Base * Base * Limb(a, 3)
         + Base * Base * Base * Limb(a, 4)

RECURSIVE IntToBig(_)
IntToBig(n) == IF n = 0 THEN <<>> ELSE <<n % Base>> \o IntToBig(n \div Base)

\* quotient limbs of a[1..i] prefixed by remainder r, for a divisor m < 10^6
RECURSIVE ShortDivFrom(_, _, _, _)
ShortDivFrom(a, m, i, r) ==
    IF i = 0 THEN <<>>
    ELSE ShortDivFrom(a, m, i - 1, (r * Base + a[i]) % m) \o <<(r * Base + a[i]) \div m>>

\* correct an under-estimated quotient digit q of r / b, rem = r - q * b
RECURSIVE FixDigit(_, _, _)
FixDigit(rem, b, q) ==
    IF BCmp(rem, b) >= 0 THEN FixDigit(BSub(rem, b), b, q + 1)
    ELSE <<q, rem>>

\* an under-estimate of floor(r / b) from the leading limbs, for Len(b) >= 3
QEstimate(r, b) ==
    (Limb(r, Len(b) + 1) * Base * Base + Limb(r, Len(b)) * Base + Limb(r, Len(b) - 1))
        \div (b[Len(b)] * Base + b[Len(b) - 1] + 1)

\* <<floor(r / b), r mod b>> for r < b * Base and Len(b) >= 3
QDigit(r, b) ==
    IF BCmp(r, b) < 0 THEN <<0, r>>
    ELSE FixDigit(BSub(r, BMulSmall(b, QEstimate(r, b))), b, QEstimate(r, b))

\* quotient limbs of a[1..i] prefixed by remainder r, by long division
RECURSIVE DivFrom(_, _, _, _)
RECURSIVE DivStep(_, _, _, _)
DivStep(a, b, i, qr) == DivFrom(a, b, i - 1, qr[2]) \o <<qr[1]>>

DivFrom(a, b, i, r) ==
    IF i = 0 THEN <<>>
    ELSE DivStep(a, b, i, QDigit(Norm(<<a[i]>> \o r), b))

\* floor(a / b) for b > 0
BDiv(a, b) ==
    IF Len(b) <= 2 THEN Norm(ShortDivFrom(a, BigToInt(b), Len(a), 0))
    ELSE Norm(DivFrom(a, b, Len(a), <<>>))

----------------------------------------------------------------------------
(* Error codes.  A failed Result<u64> is the negative code, a failed       *)
(* Result<Decimal> the one-limb sequence <<code>>.                         *)

ECalculationFailure == -1
EInvalidSlope       == -2
EInsufficientFunds  == -3
EIncorrectMint      == -4
EWithdrawNotEnough  == -5
EInvalidOracleConfig == -6
EInvalidAccountData  == -7
\* the program aborts: unwrap of a failed conversion, or an arithmetic
\* overflow in a build with overflow checks
EPanic               == -8

ErrName(code) ==
    CASE code = ECalculationFailure -> "CalculationFailure"
      [] code = EInvalidSlope       -> "InvalidSlope"
      [] code = EInsufficientFunds  -> "InsufficientFunds"
      [] code = EIncorrectMint      -> "IncorrectMint"
      [] code = EWithdrawNotEnough  -> "WithdrawNotEnough"
      [] code = EInvalidOracleConfig -> "InvalidOracleConfig"
      [] code = EInvalidAccountData  -> "InvalidAccountData"
      [] code = EPanic               -> "Panic"

CalculationFailure == <<ECalculationFailure>>
InvalidSlope       == <<EInvalidSlope>>

IsErr(d) == Len(d) = 1 /\ d[1] < 0

----------------------------------------------------------------------------
(* math/decimal.rs: Decimal(U192), scaled by WAD.                          *)

Pow64  == <<616, 551, 709, 73, 744, 446, 18>>
Pow128 == <<456, 211, 768, 431, 607, 374, 463, 463, 938, 920, 366, 282, 340>>
Pow192 == <<896, 512, 34, 464, 444, 355, 102, 416, 666, 207, 423, 789, 835,
            763, 680, 386, 735, 101, 277, 6>>

\* a - b on u64 in a build without overflow checks: modulo 2^64
wrapping_sub(a, b) ==
    IF a >= b THEN IntToBig(a - b) ELSE BSub(Pow64, IntToBig(b - a))

WAD      == <<0, 0, 0, 1>>
HALF_WAD == <<0, 0, 500>>

\* the result of a checked U192 operation whose exact value is v
Checked192(v) == IF BCmp(v, Pow192) < 0 THEN v ELSE CalculationFailure

zero == <<>>
one  == WAD

is_zero(d) == d = <<>>

\* Decimal::from(u64)
from_u64(n) == IF n = 0 THEN <<>> ELSE <<0, 0, 0>> \o IntToBig(n)

\* Decimal::from_scaled_val(u128)
from_scaled_val(n) == IntToBig(n)

\* value.0 / WAD
DivWad(a) == IF Len(a) <= 3 THEN <<>> ELSE SubSeq(a, 4, Len(a))

\* value.0 * WAD
MulWad(a) == IF a = <<>> THEN a ELSE <<0, 0, 0>> \o a

\* checked v, then / wad
Checked192DivWad(v) == IF BCmp(v, Pow192) < 0 THEN DivWad(v) ELSE CalculationFailure

try_add(a, b) ==
    IF IsErr(a) THEN a ELSE IF IsErr(b) THEN b
    ELSE Checked192(BAdd(a, b))

try_sub(a, b) ==
    IF IsErr(a) THEN a ELSE IF IsErr(b) THEN b
    ELSE IF BCmp(a, b) < 0 THEN CalculationFailure
    ELSE BSub(a, b)

\* TryMul<Decimal>: self.0 * rhs.0 / wad
try_mul(a, b) ==
    IF IsErr(a) THEN a ELSE IF IsErr(b) THEN b
    ELSE Checked192DivWad(BMul(a, b))

\* TryDiv<Decimal>: self.0 * wad / rhs.0
try_div(a, b) ==
    IF IsErr(a) THEN a ELSE IF IsErr(b) THEN b
    ELSE IF BCmp(MulWad(a), Pow192) >= 0 THEN CalculationFailure
    ELSE IF b = <<>> THEN CalculationFailure
    ELSE BDiv(MulWad(a), b)

\* TryMul<u64>: self.0 * rhs
try_mul_u64(a, n) ==
    IF IsErr(a) THEN a ELSE Checked192(BMul(a, IntToBig(n)))

\* TryDiv<u64>: self.0 / rhs
try_div_u64(a, n) ==
    IF IsErr(a) THEN a
    ELSE IF n = 0 THEN CalculationFailure
    ELSE BDiv(a, IntToBig(n))

\* self.0 / wad as u64
try_floor_u64(a) ==
    IF IsErr(a) THEN a[1]
    ELSE IF BCmp(DivWad(a), Pow64) >= 0 THEN ECalculationFailure
    ELSE BigToInt(DivWad(a))

\* s / wad as u128, for the checked sum s
RoundedU128(s) ==
    IF IsErr(s) THEN s
    ELSE IF BCmp(DivWad(s), Pow128) >= 0 THEN CalculationFailure
    ELSE DivWad(s)

\* (half_wad + self.0) / wad as u128, kept as a big integer
try_round_u128(a) ==
    IF IsErr(a) THEN a ELSE RoundedU128(Checked192(BAdd(HALF_WAD, a)))


\* wad^2 / self.0
reciprocal(a) ==
    IF IsErr(a) THEN a
    ELSE IF a = <<>> THEN CalculationFailure
    ELSE BDiv(<<0, 0, 0, 0, 0, 0, 1>>, a)

min_dec(a, b) == IF BCmp(a, b) <= 0 THEN a ELSE b

----------------------------------------------------------------------------
(* math/approximations.rs: integer square root, bit by bit.                *)

\* the largest power of 4 that is <= n, starting from the power of 4 bit
RECURSIVE MaxPow4(_, _)
MaxPow4(n, bit) ==
    IF BCmp(BMulSmall(bit, 4), n) <= 0 THEN MaxPow4(n, BMulSmall(bit, 4)) ELSE bit

\* one turn of the loop, result_with_bit = result + bit
RECURSIVE SqrtLoop(_, _, _)
RECURSIVE SqrtTurn(_, _, _, _)
SqrtTurn(n, result, bit, result_with_bit) ==
    IF BCmp(n, result_with_bit) >= 0
    THEN SqrtLoop(BSub(n, result_with_bit),
                  BAdd(Norm(ShortDivFrom(result, 2, Len(result), 0)), bit),
                  Norm(ShortDivFrom(bit, 4, Len(bit), 0)))
    ELSE SqrtLoop(n, Norm(ShortDivFrom(result, 2, Len(result), 0)),
                  Norm(ShortDivFrom(bit, 4, Len(bit), 0)))

SqrtLoop(n, result, bit) ==
    IF bit = <<>> THEN result
    ELSE SqrtTurn(n, result, bit, BAdd(result, bit))

\* sqrt::<u128>(radicand), big integer to big integer
isqrt(radicand) ==
    IF radicand = <<>> THEN <<>>
    ELSE SqrtLoop(radicand, <<>>, MaxPow4(radicand, <<1>>))

\* Decimal::from(sqrt(r)) of the rounded radicand r
SqrtOfRounded(r) == IF IsErr(r) THEN r ELSE MulWad(isqrt(r))

\* Decimal::sqrt: Decimal::from(sqrt(self.try_round_u128()?))
sqrt(a) == SqrtOfRounded(try_round_u128(a))

\* Decimal::from(self.try_floor_u64()?)
floor_dec(a) ==
    IF IsErr(a) THEN a
    ELSE IF BCmp(DivWad(a), Pow64) >= 0 THEN CalculationFailure
    ELSE MulWad(DivWad(a))

----------------------------------------------------------------------------
(* curve/calc.rs.  Each `let x = e?;` of the source is a local operator    *)
(* taking x, applied to e.                                                 *)

get_target_amount(target_reserve, future_reserve, current_reserve, market_price, slope) ==
    LET Fair(fair_amount) ==
            IF IsErr(fair_amount) THEN fair_amount
            ELSE IF BCmp(slope, one) > 0 THEN InvalidSlope
            ELSE IF is_zero(slope) THEN fair_amount
            ELSE try_mul(fair_amount,
                         try_sub(try_add(try_mul(try_div(try_div(try_mul(target_reserve,
                                                                         target_reserve),
                                                                 future_reserve),
                                                         current_reserve),
                                                 slope),
                                         one),
                                 slope))
    IN  IF \/ is_zero(current_reserve)
           \/ BCmp(future_reserve, current_reserve) < 0
           \/ BCmp(future_reserve, target_reserve) > 0
        THEN CalculationFailure
        ELSE Fair(try_mul(try_sub(future_reserve, current_reserve), market_price))

\* the slope = 1 branch of get_target_amount_reverse_direction
ReverseSlopeOne(target_reserve, current_reserve, quote_amount, market_price, fair_amount) ==
    LET Ratio(adjusted_ratio) ==
            IF IsErr(adjusted_ratio) THEN adjusted_ratio
            ELSE try_div(try_mul(current_reserve, adjusted_ratio),
                         try_add(adjusted_ratio, one))
        Probed(product, probe) ==
            IF IsErr(probe) THEN probe
            ELSE IF probe = current_reserve
            THEN try_div(try_div(product, target_reserve), target_reserve)
            ELSE try_div(try_mul(try_div(try_mul(quote_amount, current_reserve),
                                         target_reserve), market_price), target_reserve)
        Product(product) == Probed(product, try_div(product, fair_amount))
    IN  Ratio(IF is_zero(fair_amount) THEN zero
              ELSE Product(try_mul(fair_amount, current_reserve)))

\* the 0 < slope < 1 branch of get_target_amount_reverse_direction
ReverseQuadratic(target_reserve, current_reserve, fair_amount, slope) ==
    LET Candidate(candidate_reserve) ==
            IF IsErr(candidate_reserve) THEN candidate_reserve
            ELSE IF BCmp(candidate_reserve, current_reserve) > 0 THEN zero
            ELSE try_sub(current_reserve, candidate_reserve)
        Root(is_smaller, adjusted_reserve, square_root) ==
            IF IsErr(square_root) THEN square_root
            ELSE Candidate(try_div(IF is_smaller
                                   THEN try_sub(square_root, adjusted_reserve)
                                   ELSE try_add(adjusted_reserve, square_root),
                                   try_mul_u64(try_sub(one, slope), 2)))
        Adjusted(is_smaller, adjusted_reserve) ==
            IF IsErr(adjusted_reserve) THEN adjusted_reserve
            ELSE Root(is_smaller, adjusted_reserve,
                      sqrt(try_add(try_mul(adjusted_reserve, adjusted_reserve),
                                   try_mul(try_mul(try_mul(try_mul_u64(try_sub(one, slope), 4),
                                                           slope),
                                                   target_reserve),
                                           target_reserve))))
        Compared(future_reserve, adjusted_reserve) ==
            IF IsErr(future_reserve) THEN future_reserve
            ELSE IF IsErr(adjusted_reserve) THEN adjusted_reserve
            ELSE Adjusted(BCmp(adjusted_reserve, future_reserve) < 0,
                          floor_dec(IF BCmp(adjusted_reserve, future_reserve) < 0
                                    THEN try_sub(future_reserve, adjusted_reserve)
                                    ELSE try_sub(adjusted_reserve, future_reserve)))
    IN  Compared(try_add(try_mul(try_div(try_mul(slope, target_reserve), current_reserve),
                                 target_reserve), fair_amount),
                 try_mul(try_sub(one, slope), current_reserve))

\* a faulty get_target_amount_reverse_direction: the fair amount is paid
\* whatever the reserve holds
get_target_amount_reverse_direction_uncapped(target_reserve, current_reserve, quote_amount, market_price, slope) ==
    LET Fair(fair_amount) == fair_amount
    IN  IF is_zero(target_reserve) THEN CalculationFailure
        ELSE IF is_zero(quote_amount) THEN zero
        ELSE IF BCmp(slope, one) > 0 THEN InvalidSlope
        ELSE Fair(try_mul(quote_amount, market_price))

get_target_amount_reverse_direction(target_reserve, current_reserve, quote_amount, market_price, slope) ==
    LET Fair(fair_amount) ==
            IF IsErr(fair_amount) THEN fair_amount
            ELSE IF is_zero(slope) THEN min_dec(fair_amount, current_reserve)
            ELSE IF slope = one
            THEN ReverseSlopeOne(target_reserve, current_reserve, quote_amount,
                                 market_price, fair_amount)
            ELSE ReverseQuadratic(target_reserve, current_reserve, fair_amount, slope)
    IN  IF is_zero(target_reserve) THEN CalculationFailure
        ELSE IF is_zero(quote_amount) THEN zero
        ELSE IF BCmp(slope, one) > 0 THEN InvalidSlope
        ELSE Fair(try_mul(quote_amount, market_price))

\* a faulty get_target_reserve: the premium lacks its unit term
get_target_reserve_without_unit(current_reserve, quote_amount, market_price, slope) ==
    LET Premium(square_root) ==
            try_mul(try_div(try_div_u64(try_sub(square_root, one), 2), slope),
                    current_reserve)
        Probed(price_offset, product, probe) ==
            IF IsErr(probe) THEN probe
            ELSE IF probe = quote_amount
            THEN sqrt(try_add(try_div(product, current_reserve), one))
            ELSE sqrt(try_add(try_mul(try_div(price_offset, current_reserve),
                                      quote_amount), one))
        Product(price_offset, product) ==
            Probed(price_offset, product, try_div(product, price_offset))
        Offset(price_offset) ==
            IF IsErr(price_offset) THEN price_offset
            ELSE Premium(IF is_zero(price_offset) THEN one
                         ELSE Product(price_offset, try_mul(price_offset, quote_amount)))
    IN  IF is_zero(current_reserve) THEN zero
        ELSE IF is_zero(slope)
        THEN try_add(try_mul(quote_amount, market_price), current_reserve)
        ELSE IF BCmp(slope, one) > 0 THEN InvalidSlope
        ELSE Offset(try_mul_u64(try_mul(market_price, slope), 4))

get_target_reserve(current_reserve, quote_amount, market_price, slope) ==
    LET Premium(square_root) ==
            try_mul(try_add(try_div(try_div_u64(try_sub(square_root, one), 2), slope), one),
                    current_reserve)
        Probed(price_offset, product, probe) ==
            IF IsErr(probe) THEN probe
            ELSE IF probe = quote_amount
            THEN sqrt(try_add(try_div(product, current_reserve), one))
            ELSE sqrt(try_add(try_mul(try_div(price_offset, current_reserve),
                                      quote_amount), one))
        Product(price_offset, product) ==
            Probed(price_offset, product, try_div(product, price_offset))
        Offset(price_offset) ==
            IF IsErr(price_offset) THEN price_offset
            ELSE Premium(IF is_zero(price_offset) THEN one
                         ELSE Product(price_offset, try_mul(price_offset, quote_amount)))
    IN  IF is_zero(current_reserve) THEN zero
        ELSE IF is_zero(slope)
        THEN try_add(try_mul(quote_amount, market_price), current_reserve)
        ELSE IF BCmp(slope, one) > 0 THEN InvalidSlope
        ELSE Offset(try_mul_u64(try_mul(market_price, slope), 4))

----------------------------------------------------------------------------
(* curve/pool.rs: PoolState.  A failed Result<PoolState> is [err |-> code]. *)

Multipliers == {"One", "AboveOne", "BelowOne"}

Failed(r) == "err" \in DOMAIN r

Fail(code) == [err |-> code]

\* a faulty adjust_target: a reserve below its target counts as no surplus
adjust_target_saturating(self) ==
    LET below == self.multiplier = "BelowOne"
        saturating_sub(a, b) == IF BCmp(a, b) < 0 THEN zero ELSE try_sub(a, b)
        Adjusted(quote_amount, price, target) ==
            IF IsErr(quote_amount) THEN Fail(quote_amount[1])
            ELSE IF IsErr(price) THEN Fail(price[1])
            ELSE IF IsErr(target) THEN Fail(target[1])
            ELSE IF below THEN [self EXCEPT !.quote_target = target]
            ELSE [self EXCEPT !.base_target = target]
        Target(current_reserve, quote_amount, price) ==
            Adjusted(quote_amount, price,
                     get_target_reserve(current_reserve, quote_amount, price, self.slope))
    IN  IF self.multiplier = "One" THEN self
        ELSE Target(IF below THEN self.quote_reserve ELSE self.base_reserve,
                    IF below THEN saturating_sub(self.base_reserve, self.base_target)
                    ELSE saturating_sub(self.quote_reserve, self.quote_target),
                    IF below THEN self.market_price ELSE reciprocal(self.market_price))

\* PoolState::adjust_target: the adjusted state, or the failure.  BelowOne
\* adjusts quote_target, AboveOne base_target, both by get_target_reserve.
adjust_target(self) ==
    LET below == self.multiplier = "BelowOne"
        Adjusted(quote_amount, price, target) ==
            IF IsErr(quote_amount) THEN Fail(quote_amount[1])
            ELSE IF IsErr(price) THEN Fail(price[1])
            ELSE IF IsErr(target) THEN Fail(target[1])
            ELSE IF below THEN [self EXCEPT !.quote_target = target]
            ELSE [self EXCEPT !.base_target = target]
        Target(current_reserve, quote_amount, price) ==
            Adjusted(quote_amount, price,
                     get_target_reserve(current_reserve, quote_amount, price, self.slope))
    IN  IF self.multiplier = "One" THEN self
        ELSE Target(IF below THEN self.quote_reserve ELSE self.base_reserve,
                    IF below THEN try_sub(self.base_reserve, self.base_target)
                    ELSE try_sub(self.quote_reserve, self.quote_target),
                    IF below THEN self.market_price ELSE reciprocal(self.market_price))

\* PoolState::new: init then adjust_target
PoolState_new(params) == adjust_target(params)

\* the price computed by get_mid_price on the adjusted state
MidPriceOf(self) ==
    LET below == self.multiplier = "BelowOne"
        Price(multiplier) ==
            IF below THEN try_div(self.market_price, multiplier)
            ELSE try_mul(self.market_price, multiplier)
        Multiplier(target, reserve) ==
            Price(try_sub(try_add(try_mul(try_div(try_div(try_mul(target, target), reserve),
                                                  reserve),
                                          self.slope),
                                  one),
                          self.slope))
    IN  Multiplier(IF below THEN self.quote_target ELSE self.base_target,
                   IF below THEN self.quote_reserve ELSE self.base_reserve)

\* PoolState::get_mid_price: the state it leaves in self and the Result
get_mid_price(self) ==
    LET Mid(adjusted) ==
            IF Failed(adjusted) THEN [state |-> self, price |-> <<adjusted.err>>]
            ELSE [state |-> adjusted, price |-> MidPriceOf(adjusted)]
    IN  Mid(adjust_target(self))

sell_base_token_with_multiplier(self, base_amount, multiplier) ==
    LET Future(future_reserve) ==
            IF IsErr(future_reserve) THEN future_reserve
            ELSE get_target_amount(self.base_target, future_reserve, self.base_reserve,
                                   self.market_price, self.slope)
    IN  IF multiplier = "AboveOne" THEN Future(try_add(self.base_reserve, base_amount))
        ELSE get_target_amount_reverse_direction(
                 self.quote_target,
                 IF multiplier = "One" THEN self.quote_target ELSE self.quote_reserve,
                 base_amount, self.market_price, self.slope)

\* Ok((amount.try_floor_u64()?, new_multiplier))
SellResult(amount, new_multiplier) ==
    LET Floored(f) ==
            IF f < 0 THEN Fail(f) ELSE [amount |-> f, multiplier |-> new_multiplier]
    IN  IF IsErr(amount) THEN Fail(amount[1]) ELSE Floored(try_floor_u64(amount))

\* a faulty sell_base_token: sells on the side the pool is on and keeps the
\* multiplier, whatever the amount
sell_base_token_same_side(self, base_amount) ==
    SellResult(sell_base_token_with_multiplier(self, from_u64(base_amount),
                                               self.multiplier),
               self.multiplier)

\* PoolState::sell_base_token.  `crossing` is Ordering::Less of the match on
\* back_to_one_pay_base; the one call of sell_base_token_with_multiplier
\* takes the arguments of the arm that is taken.
sell_base_token(self, base_amount) ==
    LET above == self.multiplier = "AboveOne"
        amount == from_u64(base_amount)
        Sold(back_to_one_pay_base, back_to_one_receive_quote, quote_amount) ==
            IF ~above THEN SellResult(quote_amount, "BelowOne")
            ELSE IF IsErr(back_to_one_pay_base) THEN Fail(back_to_one_pay_base[1])
            ELSE IF IsErr(back_to_one_receive_quote)
            THEN Fail(back_to_one_receive_quote[1])
            ELSE IF BCmp(back_to_one_pay_base, amount) > 0
            THEN SellResult(IF IsErr(quote_amount) THEN quote_amount
                            ELSE min_dec(quote_amount, back_to_one_receive_quote),
                            "AboveOne")
            ELSE IF BCmp(back_to_one_pay_base, amount) = 0
            THEN SellResult(back_to_one_receive_quote, "One")
            ELSE SellResult(try_add(quote_amount, back_to_one_receive_quote), "BelowOne")
        BackToOne(back_to_one_pay_base, back_to_one_receive_quote, crossing) ==
            Sold(back_to_one_pay_base, back_to_one_receive_quote,
                 sell_base_token_with_multiplier(
                     self,
                     IF crossing THEN try_sub(amount, back_to_one_pay_base) ELSE amount,
                     IF crossing THEN "One" ELSE self.multiplier))
        Pay(back_to_one_pay_base) ==
            BackToOne(back_to_one_pay_base,
                      IF above THEN try_sub(self.quote_reserve, self.quote_target) ELSE zero,
                      above /\ BCmp(back_to_one_pay_base, amount) < 0)
    IN  Pay(IF above THEN try_sub(self.base_target, self.base_reserve) ELSE zero)

sell_quote_token_with_multiplier(self, quote_amount, multiplier) ==
    LET Future(future_reserve, price) ==
            IF IsErr(future_reserve) THEN future_reserve
            ELSE IF IsErr(price) THEN price
            ELSE get_target_amount(self.quote_target, future_reserve, self.quote_reserve,
                                   price, self.slope)
        Reverse(price) ==
            IF IsErr(price) THEN price
            ELSE get_target_amount_reverse_direction(
                     self.base_target,
                     IF multiplier = "One" THEN self.base_target ELSE self.base_reserve,
                     quote_amount, price, self.slope)
        Price(price) ==
            IF multiplier = "BelowOne"
            THEN Future(try_add(self.quote_reserve, quote_amount), price)
            ELSE Reverse(price)
    IN  Price(reciprocal(self.market_price))

\* PoolState::sell_quote_token, the mirror image of sell_base_token
sell_quote_token(self, quote_amount) ==
    LET below == self.multiplier = "BelowOne"
        amount == from_u64(quote_amount)
        Sold(back_to_one_pay_quote, back_to_one_receive_base, base_amount) ==
            IF ~below THEN SellResult(base_amount, "AboveOne")
            ELSE IF IsErr(back_to_one_pay_quote) THEN Fail(back_to_one_pay_quote[1])
            ELSE IF IsErr(back_to_one_receive_base)
            THEN Fail(back_to_one_receive_base[1])
            ELSE IF BCmp(back_to_one_pay_quote, amount) > 0
            THEN SellResult(IF IsErr(base_amount) THEN base_amount
                            ELSE min_dec(base_amount, back_to_one_receive_base),
                            "BelowOne")
            ELSE IF BCmp(back_to_one_pay_quote, amount) = 0
            THEN SellResult(back_to_one_receive_base, "One")
            ELSE SellResult(try_add(base_amount, back_to_one_receive_base), "AboveOne")
        BackToOne(back_to_one_pay_quote, back_to_one_receive_base, crossing) ==
            Sold(back_to_one_pay_quote, back_to_one_receive_base,
                 sell_quote_token_with_multiplier(
                     self,
                     IF crossing THEN try_sub(amount, back_to_one_pay_quote) ELSE amount,
                     IF crossing THEN "One" ELSE self.multiplier))
        Pay(back_to_one_pay_quote) ==
            BackToOne(back_to_one_pay_quote,
                      IF below THEN try_sub(self.base_reserve, self.base_target) ELSE zero,
                      below /\ BCmp(back_to_one_pay_quote, amount) < 0)
    IN  Pay(IF below THEN try_sub(self.quote_target, self.quote_reserve) ELSE zero)

\* a faulty initial_shares: the base balance, whatever the quote balance is worth
initial_shares_base_only(market_price, base_balance, quote_balance) == base_balance

\* buy_shares, case 1: the shares of the initial supply, the base balance
\* unless the quote balance is worth less at the market price
initial_shares(market_price, base_balance, quote_balance) ==
    LET Priced(price_base) ==
            IF IsErr(price_base) THEN price_base
            ELSE IF BCmp(price_base, quote_balance) > 0
            THEN try_div(quote_balance, market_price)
            ELSE base_balance
    IN  Priced(try_mul(market_price, base_balance))

\* a faulty buy_shares: the reserves are committed before the mint is refused
buy_shares_committing_first(self, base_balance_u64, quote_balance_u64, total_supply) ==
    LET base_balance == from_u64(base_balance_u64)
        quote_balance == from_u64(quote_balance_u64)
        \* the targets are assigned in turn, then the reserves
        Minted(shares, base_target, quote_target) ==
            IF IsErr(shares) THEN [state |-> self, result |-> shares[1]]
            ELSE IF IsErr(base_target) THEN [state |-> self, result |-> base_target[1]]
            ELSE IF IsErr(quote_target)
            THEN [state |-> [self EXCEPT !.base_target = base_target],
                  result |-> quote_target[1]]
            ELSE [state |-> [self EXCEPT !.base_target = base_target,
                                         !.quote_target = quote_target,
                                         !.base_reserve = base_balance,
                                         !.quote_reserve = quote_balance],
                  result |-> try_floor_u64(shares)]
        \* case 1. initial supply
        Initial(shares) == Minted(shares, shares, try_mul(shares, self.market_price))
        \* case 2. normal case
        Normal(mint_ratio) ==
            Minted(try_mul_u64(mint_ratio, total_supply),
                   try_add(try_mul(self.base_target, mint_ratio), self.base_target),
                   try_add(try_mul(self.quote_target, mint_ratio), self.quote_target))
        Ratios(base_input_ratio, quote_input_ratio) ==
            Normal(IF IsErr(base_input_ratio) THEN base_input_ratio
                   ELSE IF IsErr(quote_input_ratio) THEN quote_input_ratio
                   ELSE min_dec(base_input_ratio, quote_input_ratio))
        Inputs(base_input, quote_input) ==
            IF IsErr(base_input) THEN [state |-> self, result |-> base_input[1]]
            ELSE IF IsErr(quote_input) THEN [state |-> self, result |-> quote_input[1]]
            ELSE IF is_zero(base_input) THEN [state |-> self, result |-> EInsufficientFunds]
            ELSE IF total_supply = 0
            THEN Initial(initial_shares(self.market_price, base_balance, quote_balance))
            ELSE IF ~is_zero(self.base_reserve) /\ ~is_zero(self.quote_reserve)
            THEN Ratios(try_div(base_input, self.base_reserve),
                        try_div(quote_input, self.quote_reserve))
            ELSE [state |-> [self EXCEPT !.base_reserve = base_balance,
                                         !.quote_reserve = quote_balance],
                  result |-> EIncorrectMint]
    IN  Inputs(try_sub(base_balance, self.base_reserve),
               try_sub(quote_balance, self.quote_reserve))

\* PoolState::buy_shares: the state left in self and the Result<u64>
buy_shares(self, base_balance_u64, quote_balance_u64, total_supply) ==
    LET base_balance == from_u64(base_balance_u64)
        quote_balance == from_u64(quote_balance_u64)
        \* the targets are assigned in turn, then the reserves
        Minted(shares, base_target, quote_target) ==
            IF IsErr(shares) THEN [state |-> self, result |-> shares[1]]
            ELSE IF IsErr(base_target) THEN [state |-> self, result |-> base_target[1]]
            ELSE IF IsErr(quote_target)
            THEN [state |-> [self EXCEPT !.base_target = base_target],
                  result |-> quote_target[1]]
            ELSE [state |-> [self EXCEPT !.base_target = base_target,
                                         !.quote_target = quote_target,
                                         !.base_reserve = base_balance,
                                         !.quote_reserve = quote_balance],
                  result |-> try_floor_u64(shares)]
        \* case 1. initial supply
        Initial(shares) == Minted(shares, shares, try_mul(shares, self.market_price))
        \* case 2. normal case
        Normal(mint_ratio) ==
            Minted(try_mul_u64(mint_ratio, total_supply),
                   try_add(try_mul(self.base_target, mint_ratio), self.base_target),
                   try_add(try_mul(self.quote_target, mint_ratio), self.quote_target))
        Ratios(base_input_ratio, quote_input_ratio) ==
            Normal(IF IsErr(base_input_ratio) THEN base_input_ratio
                   ELSE IF IsErr(quote_input_ratio) THEN quote_input_ratio
                   ELSE min_dec(base_input_ratio, quote_input_ratio))
        Inputs(base_input, quote_input) ==
            IF IsErr(base_input) THEN [state |-> self, result |-> base_input[1]]
            ELSE IF IsErr(quote_input) THEN [state |-> self, result |-> quote_input[1]]
            ELSE IF is_zero(base_input) THEN [state |-> self, result |-> EInsufficientFunds]
            ELSE IF total_supply = 0
            THEN Initial(initial_shares(self.market_price, base_balance, quote_balance))
            ELSE IF ~is_zero(self.base_reserve) /\ ~is_zero(self.quote_reserve)
            THEN Ratios(try_div(base_input, self.base_reserve),
                        try_div(quote_input, self.quote_reserve))
            ELSE [state |-> self, result |-> EIncorrectMint]
    IN  Inputs(try_sub(base_balance, self.base_reserve),
               try_sub(quote_balance, self.quote_reserve))

\* PoolState::sell_shares: the state left in self and the Result<(u64, u64)>
sell_shares(self, share_amount, base_min_amount, quote_min_amount, total_supply) ==
    LET Portion(amount) == try_div_u64(try_mul_u64(amount, share_amount), total_supply)
        Floored(state, base_floor, quote_floor) ==
            IF base_floor < 0 THEN [state |-> state, result |-> Fail(base_floor)]
            ELSE IF quote_floor < 0 THEN [state |-> state, result |-> Fail(quote_floor)]
            ELSE [state |-> state,
                  result |-> [base_amount |-> base_floor, quote_amount |-> quote_floor]]
        Reserved(state, base_amount, quote_amount, base_reserve, quote_reserve) ==
            IF IsErr(base_reserve) THEN [state |-> state, result |-> Fail(base_reserve[1])]
            ELSE IF IsErr(quote_reserve)
            THEN [state |-> [state EXCEPT !.base_reserve = base_reserve],
                  result |-> Fail(quote_reserve[1])]
            ELSE Floored([state EXCEPT !.base_reserve = base_reserve,
                                       !.quote_reserve = quote_reserve],
                         try_floor_u64(base_amount), try_floor_u64(quote_amount))
        Targeted(base_amount, quote_amount, base_target, quote_target) ==
            IF IsErr(base_amount) THEN [state |-> self, result |-> Fail(base_amount[1])]
            ELSE IF IsErr(quote_amount)
            THEN [state |-> self, result |-> Fail(quote_amount[1])]
            ELSE IF IsErr(base_target)
            THEN [state |-> self, result |-> Fail(base_target[1])]
            ELSE IF IsErr(quote_target)
            THEN [state |-> [self EXCEPT !.base_target = base_target],
                  result |-> Fail(quote_target[1])]
            ELSE IF \/ BCmp(base_amount, from_u64(base_min_amount)) < 0
                    \/ BCmp(quote_amount, from_u64(quote_min_amount)) < 0
            THEN [state |-> [self EXCEPT !.base_target = base_target,
                                         !.quote_target = quote_target],
                  result |-> Fail(EWithdrawNotEnough)]
            ELSE Reserved([self EXCEPT !.base_target = base_target,
                                       !.quote_target = quote_target],
                          base_amount, quote_amount,
                          try_sub(self.base_reserve, base_amount),
                          try_sub(self.quote_reserve, quote_amount))
    IN  Targeted(Portion(self.base_reserve), Portion(self.quote_reserve),
                 try_sub(self.base_target, Portion(self.base_target)),
                 try_sub(self.quote_target, Portion(self.quote_target)))

----------------------------------------------------------------------------
(* state/fees.rs and state/rewards.rs                                      *)

\* amount.checked_mul(numerator)?.checked_div(denominator) on u64, the three
\* numbers as big integers
checked_mul_div(amount, numerator, denominator) ==
    LET Product(product) ==
            IF BCmp(product, Pow64) >= 0 THEN CalculationFailure
            ELSE IF denominator = <<>> THEN CalculationFailure
            ELSE BDiv(product, denominator)
    IN  Product(BMul(amount, numerator))

\* the same on machine integers; a failure is the negative code
FeeOf(amount, numerator, denominator) ==
    LET Fee(fee) == IF IsErr(fee) THEN fee[1] ELSE BigToInt(fee)
    IN  Fee(checked_mul_div(IntToBig(amount), IntToBig(numerator),
                            IntToBig(denominator)))

admin_trade_fee(fees, fee_amount) ==
    FeeOf(fee_amount, fees.admin_trade_fee_numerator, fees.admin_trade_fee_denominator)

admin_withdraw_fee(fees, fee_amount) ==
    FeeOf(fee_amount, fees.admin_withdraw_fee_numerator, fees.admin_withdraw_fee_denominator)

trade_fee(fees, trade_amount) ==
    FeeOf(trade_amount, fees.trade_fee_numerator, fees.trade_fee_denominator)

withdraw_fee(fees, withdraw_amount) ==
    FeeOf(withdraw_amount, fees.withdraw_fee_numerator, fees.withdraw_fee_denominator)

trade_reward_u64(rewards, amount) ==
    LET Reward(c_reward) ==
            IF IsErr(c_reward) THEN c_reward[1]
            ELSE IF BCmp(c_reward, from_u64(rewards.trade_reward_cap)) > 0
            THEN rewards.trade_reward_cap
            ELSE try_floor_u64(c_reward)
    IN  Reward(try_div_u64(try_mul_u64(sqrt(from_u64(amount)),
                                       rewards.trade_reward_numerator),
                           rewards.trade_reward_denominator))

liquidity_reward_u64(rewards, amount) ==
    try_floor_u64(try_div_u64(try_mul_u64(from_u64(amount),
                                          rewards.liquidity_reward_numerator),
                              rewards.liquidity_reward_denominator))

----------------------------------------------------------------------------
(* processor.rs: the oracle price.  A pyth price account is the record      *)
(* [loaded, ptype, valid_slot, price, conf, expo]; loaded is whether        *)
(* pyth::load accepts the account data.                                     *)

STALE_AFTER_SLOTS_ELAPSED == 5

\* 10^e as a big integer
RECURSIVE Pow10(_)
Pow10(e) == IF e = 0 THEN <<1>> ELSE BMulSmall(Pow10(e - 1), 10)

Abs(n) == IF n < 0 THEN 0 - n ELSE n

get_pyth_price(pyth_price, clock) ==
    IF ~pyth_price.loaded THEN <<EInvalidAccountData>>
    ELSE IF pyth_price.ptype # "Price" THEN <<EInvalidOracleConfig>>
    ELSE IF clock.slot < pyth_price.valid_slot THEN CalculationFailure
    ELSE IF clock.slot - pyth_price.valid_slot >= STALE_AFTER_SLOTS_ELAPSED
    THEN <<EInvalidOracleConfig>>
    ELSE IF pyth_price.price < 0 THEN <<EInvalidOracleConfig>>
    ELSE IF pyth_price.conf > 0 /\ pyth_price.price < pyth_price.conf * 100
    THEN <<EInvalidOracleConfig>>
    ELSE IF pyth_price.expo = 0 - 2147483647 - 1 THEN CalculationFailure
    ELSE IF Abs(pyth_price.expo) >= 20 THEN CalculationFailure
    ELSE IF pyth_price.expo >= 0
    THEN Checked192(BMul(from_u64(pyth_price.price), Pow10(pyth_price.expo)))
    ELSE BDiv(from_u64(pyth_price.price), Pow10(Abs(pyth_price.expo)))

get_market_price_from_pyth(pyth_a_price, pyth_b_price, clock) ==
    LET Prices(price_a, price_b) ==
            IF IsErr(price_a) THEN price_a
            ELSE IF IsErr(price_b) THEN price_b
            ELSE IF BCmp(price_a, price_b) > 0 THEN try_div(price_a, price_b)
            ELSE try_div(price_b, price_a)
    IN  Prices(get_pyth_price(pyth_a_price, clock), get_pyth_price(pyth_b_price, clock))

\* a faulty candidate_price: the oracle's answer, its failure included
candidate_price_oracle_only(token_swap, pyth, base_price_cumulative_last, pool_mid_price, block_timestamp_last, overflow_checks) == pyth

\* get_new_market_price, lines 979-990: the candidate market price
candidate_price(token_swap, pyth, base_price_cumulative_last, pool_mid_price, block_timestamp_last, overflow_checks) ==
    IF ~IsErr(pyth) THEN pyth
    ELSE IF token_swap.is_open_twap
    THEN IF block_timestamp_last >= token_swap.cumulative_ticks
         THEN try_div_u64(base_price_cumulative_last,
                          block_timestamp_last - token_swap.cumulative_ticks)
         ELSE IF overflow_checks THEN <<EPanic>>
         ELSE BDiv(base_price_cumulative_last,
                   wrapping_sub(block_timestamp_last, token_swap.cumulative_ticks))
    ELSE pool_mid_price

\* a faulty adopt_price: the comparison of the deviation guard inverted
adopt_price_inverted(pool_mid_price, market_price) ==
    LET Scaled(scaled) ==
            IF IsErr(scaled) THEN scaled
            ELSE IF BCmp(scaled, pool_mid_price) > 0 THEN pool_mid_price
            ELSE market_price
    IN  Scaled(try_mul_u64(IF BCmp(pool_mid_price, market_price) > 0
                           THEN try_sub(pool_mid_price, market_price)
                           ELSE try_sub(market_price, pool_mid_price), 100))

\* get_new_market_price, lines 992-1003: the price adopted, or the failure
adopt_price(pool_mid_price, market_price) ==
    LET Scaled(scaled) ==
            IF IsErr(scaled) THEN scaled
            ELSE IF BCmp(scaled, pool_mid_price) > 0 THEN market_price
            ELSE pool_mid_price
    IN  Scaled(try_mul_u64(IF BCmp(pool_mid_price, market_price) > 0
                           THEN try_sub(pool_mid_price, market_price)
                           ELSE try_sub(market_price, pool_mid_price), 100))

\* get_new_market_price: token_swap as the call leaves it, and the Result
get_new_market_price(token_swap, pyth_a_price, pyth_b_price, clock, overflow_checks) ==
    LET block_timestamp_last == clock.unix_timestamp
        behind == block_timestamp_last < token_swap.block_timestamp_last
        Adopted(swap1, base_price_cumulative_last, adopted) ==
            IF IsErr(adopted) THEN [swap |-> swap1, result |-> Fail(adopted[1])]
            ELSE [swap |-> swap1,
                  result |-> [market_price |-> adopted,
                              base_price_cumulative_last |-> base_price_cumulative_last]]
        Candidate(swap1, pool_mid_price, base_price_cumulative_last, market_price) ==
            IF IsErr(market_price) THEN [swap |-> swap1, result |-> Fail(market_price[1])]
            ELSE Adopted(swap1, base_price_cumulative_last,
                         adopt_price(pool_mid_price, market_price))
        Accumulated(swap1, pool_mid_price, base_price_cumulative_last) ==
            IF IsErr(base_price_cumulative_last)
            THEN [swap |-> swap1, result |-> Fail(base_price_cumulative_last[1])]
            ELSE Candidate(swap1, pool_mid_price, base_price_cumulative_last,
                           candidate_price(token_swap,
                                           get_market_price_from_pyth(pyth_a_price,
                                                                      pyth_b_price, clock),
                                           base_price_cumulative_last, pool_mid_price,
                                           block_timestamp_last, overflow_checks))
        Elapsed(swap1, pool_mid_price) ==
            Accumulated(swap1, pool_mid_price,
                        IF /\ token_swap.is_open_twap
                           /\ block_timestamp_last # token_swap.block_timestamp_last
                           /\ ~is_zero(swap1.pool_state.base_reserve)
                           /\ ~is_zero(swap1.pool_state.quote_reserve)
                        THEN try_add(token_swap.base_price_cumulative_last,
                                     IF behind
                                     THEN Checked192(BMul(pool_mid_price,
                                              wrapping_sub(block_timestamp_last,
                                                  token_swap.block_timestamp_last)))
                                     ELSE try_mul_u64(pool_mid_price,
                                              block_timestamp_last
                                                  - token_swap.block_timestamp_last))
                        ELSE token_swap.base_price_cumulative_last)
        Mid(mid) ==
            IF IsErr(mid.price)
            THEN [swap |-> [token_swap EXCEPT !.pool_state = mid.state],
                  result |-> Fail(mid.price[1])]
            ELSE IF block_timestamp_last < 0
            THEN [swap |-> [token_swap EXCEPT !.pool_state = mid.state],
                  result |-> Fail(EPanic)]
            ELSE IF token_swap.is_open_twap /\ behind /\ overflow_checks
            THEN [swap |-> [token_swap EXCEPT !.pool_state = mid.state],
                  result |-> Fail(EPanic)]
            ELSE Elapsed([token_swap EXCEPT !.pool_state = mid.state], mid.price)
    IN  Mid(get_mid_price(token_swap.pool_state))

----------------------------------------------------------------------------
(* The program's accounts and the handlers of processor.rs and admin.rs.   *)

VARIABLES
    config,            \* ConfigInfo account
    swap,              \* SwapInfo account of the pool
    balances,          \* amounts held by the pool's custody accounts (token_a,
                       \* token_b) and by the admin fee accounts
    pool_mint_supply,  \* supply of the pool (share) mint
    provider,          \* LiquidityProvider account of the user
    clock,             \* Clock sysvar
    ops,               \* number of Initialize, Swap, Deposit and Withdraw
                       \* instructions processed
    last               \* the last of those instructions and its outcome

vars == <<config, swap, balances, pool_mint_supply, provider, clock, ops, last>>

accounts == <<config, swap, balances, pool_mint_supply, provider>>

\* bounds of the exploration
MaxOps  == 3
MaxTime == 2

POOL == "pool"
Keys == {"admin", "user"}
MIN_CLAIM_PERIOD == 2592000

DEFAULT_TEST_FEES ==
    [admin_trade_fee_numerator |-> 1, admin_trade_fee_denominator |-> 2,
     admin_withdraw_fee_numerator |-> 1, admin_withdraw_fee_denominator |-> 2,
     trade_fee_numerator |-> 6, trade_fee_denominator |-> 100,
     withdraw_fee_numerator |-> 6, withdraw_fee_denominator |-> 100]

DEFAULT_TEST_REWARDS ==
    [trade_reward_numerator |-> 1, trade_reward_denominator |-> 2,
     trade_reward_cap |-> 100,
     liquidity_reward_numerator |-> 1, liquidity_reward_denominator |-> 1000]

\* zeroed account data, as the runtime allocates it
NoFees ==
    [admin_trade_fee_numerator |-> 0, admin_trade_fee_denominator |-> 0,
     admin_withdraw_fee_numerator |-> 0, admin_withdraw_fee_denominator |-> 0,
     trade_fee_numerator |-> 0, trade_fee_denominator |-> 0,
     withdraw_fee_numerator |-> 0, withdraw_fee_denominator |-> 0]

NoRewards ==
    [trade_reward_numerator |-> 0, trade_reward_denominator |-> 0,
     trade_reward_cap |-> 0,
     liquidity_reward_numerator |-> 0, liquidity_reward_denominator |-> 0]

EmptyPoolState ==
    [market_price |-> zero, slope |-> zero, base_target |-> zero,
     quote_target |-> zero, base_reserve |-> zero, quote_reserve |-> zero,
     multiplier |-> "One"]

EmptyConfig ==
    [is_initialized |-> FALSE, admin_key |-> "none", deltafi_mint |-> "none",
     fees |-> NoFees, rewards |-> NoRewards]

EmptySwap ==
    [is_initialized |-> FALSE, is_paused |-> FALSE,
     fees |-> NoFees, rewards |-> NoRewards,
     admin_fee_key_a |-> "none", admin_fee_key_b |-> "none",
     pool_state |-> EmptyPoolState, is_open_twap |-> FALSE,
     block_timestamp_last |-> 0, cumulative_ticks |-> 0,
     base_price_cumulative_last |-> zero]

EmptyProvider == [is_initialized |-> FALSE, owner |-> "none", positions |-> <<>>]

NoInstruction == [op |-> "none", status |-> "Ok", was_paused |-> FALSE]

\* pack_decimal: to_scaled_val fits a u128, or the handler panics
Packable(d) == BCmp(d, Pow128) < 0

PoolStatePackable(ps) ==
    /\ Packable(ps.market_price) /\ Packable(ps.slope)
    /\ Packable(ps.base_reserve) /\ Packable(ps.quote_reserve)
    /\ Packable(ps.base_target) /\ Packable(ps.quote_target)

SwapInfoPackable(s) ==
    PoolStatePackable(s.pool_state) /\ Packable(s.base_price_cumulative_last)

\* spl-token transfers, applied in order to the tracked accounts; the user's
\* own token accounts hold enough for the transfers they fund
RECURSIVE ApplyTransfers(_, _)
ApplyTransfers(bal, transfers) ==
    IF transfers = <<>> THEN bal
    ELSE LET t == Head(transfers)
             debited == IF t.from = "user" THEN bal
                        ELSE [bal EXCEPT ![t.from] = @ - t.amount]
             credited == IF t.to = "user" THEN debited
                         ELSE [debited EXCEPT ![t.to] = @ + t.amount]
         IN  IF t.from # "user" /\ bal[t.from] < t.amount
             THEN [err |-> "TokenInsufficientFunds"]
             ELSE ApplyTransfers(credited, Tail(transfers))

Transfer(from, to, amount) == [from |-> from, to |-> to, amount |-> amount]

\* process_swap, lines 348-378: the admin fee account the SwapInfo names for
\* this direction and this destination custody account
required_admin_destination(token_swap, swap_direction, swap_destination) ==
    IF (swap_direction = "SellBase") = (swap_destination = "token_a")
    THEN token_swap.admin_fee_key_a ELSE token_swap.admin_fee_key_b

\* the admin_destination account a caller who follows the SwapInfo passes
AdminDestination(token_swap, swap_direction, swap_source) ==
    required_admin_destination(token_swap, swap_direction,
                               IF swap_source = "token_a" THEN "token_b" ELSE "token_a")

\* oracle accounts a caller can pass, as <<pyth_a, pyth_b>>
PythPrice(price, conf, valid_slot) ==
    [loaded |-> TRUE, ptype |-> "Price", valid_slot |-> valid_slot,
     price |-> price, conf |-> conf, expo |-> 0]

PythUnknown == [loaded |-> TRUE, ptype |-> "Unknown", valid_slot |-> 0,
                price |-> 0, conf |-> 0, expo |-> 0]

PythMalformed == [loaded |-> FALSE, ptype |-> "Unknown", valid_slot |-> 0,
                  price |-> 0, conf |-> 0, expo |-> 0]

Oracle(kind, clk) ==
    CASE kind = "unknown"   -> <<PythUnknown, PythPrice(1, 0, clk.slot)>>
      [] kind = "malformed" -> <<PythPrice(100, 0, clk.slot), PythMalformed>>
      [] kind = "stale"     -> <<PythPrice(100, 0, clk.slot - STALE_AFTER_SLOTS_ELAPSED),
                                 PythPrice(1, 0, clk.slot)>>
      [] kind = "volatile"  -> <<PythPrice(100, 2, clk.slot), PythPrice(1, 0, clk.slot)>>
      [] kind = "fresh120"  -> <<PythPrice(120, 1, clk.slot), PythPrice(1, 0, clk.slot)>>
      [] kind = "fresh100"  -> <<PythPrice(100, 1, clk.slot), PythPrice(1, 0, clk.slot)>>
      [] kind = "fresh100_5" -> <<[PythPrice(1005, 1, clk.slot) EXCEPT !.expo = -1],
                                  PythPrice(1, 0, clk.slot)>>

\* amounts the custody accounts hold before the pool is initialized
InitialBalances ==
    {[token_a |-> 1000, token_b |-> 100000, admin_fee_a |-> 0, admin_fee_b |-> 0,
      fee_a_2 |-> 0, fee_b_2 |-> 0]}

Init ==
    /\ config = EmptyConfig
    /\ swap = EmptySwap
    /\ balances \in InitialBalances
    /\ pool_mint_supply = 0
    /\ provider = EmptyProvider
    /\ clock = [unix_timestamp |-> 1, slot |-> 10]
    /\ ops = 0
    /\ last = NoInstruction

\* the Clock sysvar advances
Tick ==
    /\ clock.unix_timestamp < MaxTime
    /\ clock' = [unix_timestamp |-> clock.unix_timestamp + 1, slot |-> clock.slot + 1]
    /\ UNCHANGED <<accounts, ops, last>>

\* a faulty assert_uninitialized: the account is taken whatever it holds
assert_uninitialized_unchecked(account) == "Ok"

\* processor.rs assert_uninitialized
assert_uninitialized(account) ==
    IF account.is_initialized THEN "AlreadyInUse" ELSE "Ok"

\* admin.rs initialize, on a rent-exempt config account the program owns and a
\* mint whose freeze authority is the admin: the status and the ConfigInfo left
initialize(admin_info, fees, rewards) ==
    IF ~admin_info.is_signer
    THEN [status |-> "MissingRequiredSignature", config |-> config]
    ELSE IF assert_uninitialized(config) # "Ok"
    THEN [status |-> assert_uninitialized(config), config |-> config]
    ELSE [status |-> "Ok",
          config |-> [is_initialized |-> TRUE, admin_key |-> admin_info.key,
                      deltafi_mint |-> "deltafi_mint",
                      fees |-> fees, rewards |-> rewards]]

\* admin.rs initialize by the signing admin
AdminInitialize ==
    \E admin \in {"admin"} :
        /\ config' = initialize([key |-> admin, is_signer |-> TRUE],
                                DEFAULT_TEST_FEES, DEFAULT_TEST_REWARDS).config
        /\ UNCHANGED <<swap, balances, pool_mint_supply, provider, clock, ops, last>>

\* a faulty is_admin_account: any signer passes
is_admin_any_signer(expected_admin_key, admin_account_info) ==
    IF ~admin_account_info.is_signer THEN "MissingRequiredSignature" ELSE "Ok"

\* admin.rs is_admin
is_admin_account(expected_admin_key, admin_account_info) ==
    IF expected_admin_key # admin_account_info.key THEN "Unauthorized"
    ELSE IF ~admin_account_info.is_signer THEN "MissingRequiredSignature"
    ELSE "Ok"

\* admin.rs is_admin, for a signing caller
is_admin(expected_admin_key, caller) ==
    is_admin_account(expected_admin_key, [key |-> caller, is_signer |-> TRUE])

\* admin.rs pause / unpause: the status of the instruction setting is_paused
set_paused_status(caller) ==
    IF ~config.is_initialized THEN "UninitializedAccount"
    ELSE IF is_admin(config.admin_key, caller) # "Ok"
    THEN is_admin(config.admin_key, caller)
    ELSE IF ~swap.is_initialized THEN "UninitializedAccount"
    ELSE "Ok"

\* admin.rs pause
Pause ==
    \E caller \in Keys :
        /\ swap' = IF set_paused_status(caller) = "Ok"
                   THEN [swap EXCEPT !.is_paused = TRUE] ELSE swap
        /\ UNCHANGED <<config, balances, pool_mint_supply, provider, clock, ops, last>>

\* admin.rs unpause
Unpause ==
    \E caller \in Keys :
        /\ swap' = IF set_paused_status(caller) = "Ok"
                   THEN [swap EXCEPT !.is_paused = FALSE] ELSE swap
        /\ UNCHANGED <<config, balances, pool_mint_supply, provider, clock, ops, last>>

\* process_init_liquidity_provider, on a rent-exempt account the program
\* owns: the status and the LiquidityProvider left
process_init_liquidity_provider(liquidity_owner_info) ==
    IF assert_uninitialized(provider) # "Ok"
    THEN [status |-> assert_uninitialized(provider), provider |-> provider]
    ELSE IF ~liquidity_owner_info.is_signer
    THEN [status |-> "InvalidSigner", provider |-> provider]
    ELSE [status |-> "Ok",
          provider |-> [is_initialized |-> TRUE, owner |-> liquidity_owner_info.key,
                        positions |-> <<>>]]

\* process_init_liquidity_provider by the signing owner
InitLiquidityProvider ==
    \E owner \in {"user"} :
        /\ provider' = process_init_liquidity_provider(
                            [key |-> owner, is_signer |-> TRUE]).provider
        /\ UNCHANGED <<config, swap, balances, pool_mint_supply, clock, ops, last>>

\* LiquidityPosition::new
LiquidityPosition_new(pool, current_ts) ==
    [pool |-> pool, liquidity_amount |-> 0, rewards_owed |-> 0,
     rewards_estimated |-> 0, cumulative_interest |-> 0,
     last_update_ts |-> current_ts, next_claim_ts |-> current_ts + MIN_CLAIM_PERIOD]

\* LiquidityProvider::find_position_index: the index, or 0 for None
find_position_index(self, pool) ==
    IF \E i \in 1..Len(self.positions) : self.positions[i].pool = pool
    THEN CHOOSE i \in 1..Len(self.positions) :
            /\ self.positions[i].pool = pool
            /\ \A j \in 1..(i - 1) : self.positions[j].pool # pool
    ELSE 0

\* LiquidityProvider::find_position: the index, or the failure
find_position(self, pool) ==
    IF self.positions = <<>> THEN [err |-> "LiquidityPositionEmpty"]
    ELSE IF find_position_index(self, pool) = 0 THEN [err |-> "InvalidPositionKey"]
    ELSE [index |-> find_position_index(self, pool)]

\* a faulty find_or_add_position: a position is appended even when one exists
find_or_add_position_always_adding(self, pool, current_ts) ==
    [provider |-> [self EXCEPT !.positions =
                       Append(@, LiquidityPosition_new(pool, current_ts))],
     index |-> Len(self.positions) + 1]

\* LiquidityProvider::find_or_add_position: the provider and the index found
find_or_add_position(self, pool, current_ts) ==
    IF find_position_index(self, pool) # 0
    THEN [provider |-> self, index |-> find_position_index(self, pool)]
    ELSE [provider |-> [self EXCEPT !.positions =
                            Append(@, LiquidityPosition_new(pool, current_ts))],
          index |-> Len(self.positions) + 1]

\* a faulty deposit: the position is credited one share short
position_deposit_short(position, deposit_amount) ==
    [position EXCEPT !.liquidity_amount = @ + deposit_amount - 1]

\* LiquidityPosition::deposit
position_deposit(position, deposit_amount) ==
    [position EXCEPT !.liquidity_amount = @ + deposit_amount]

\* LiquidityPosition::withdraw: the position, or the failure
position_withdraw(position, withdraw_amount) ==
    IF withdraw_amount > position.liquidity_amount
    THEN [err |-> "InsufficientLiquidity"]
    ELSE [position EXCEPT !.liquidity_amount = @ - withdraw_amount]

\* LiquidityPosition::update_claim_ts
update_claim_ts(position) ==
    IF position.liquidity_amount # 0
    THEN [position EXCEPT !.next_claim_ts = @ + MIN_CLAIM_PERIOD]
    ELSE position

\* the reward of calc_period seconds, floored:
\* rewards_ratio * liquidity_amount / MIN_CLAIM_PERIOD * calc_period
period_reward(rewards_ratio, liquidity_amount, calc_period) ==
    try_floor_u64(try_mul_u64(try_div_u64(try_mul_u64(rewards_ratio, liquidity_amount),
                                          MIN_CLAIM_PERIOD),
                              calc_period))

\* a faulty roll_over_due: every refresh ends the claim period
roll_over_always(position, current_ts) == TRUE

\* calc_and_update_rewards: whether the claim period has ended
roll_over_due(position, current_ts) == current_ts >= position.next_claim_ts

\* calc_and_update_rewards, second half: estimated rewards become owed
roll_over(position, current_ts) ==
    IF roll_over_due(position, current_ts)
    THEN update_claim_ts([position EXCEPT
                              !.rewards_owed = @ + position.rewards_estimated,
                              !.rewards_estimated = 0])
    ELSE position

\* LiquidityPosition::calc_and_update_rewards: the position, or the failure
calc_and_update_rewards(position, rewards_ratio, current_ts) ==
    LET calc_period == current_ts - position.last_update_ts
        Estimated(reward) ==
            IF reward < 0 THEN [err |-> ErrName(reward)]
            ELSE roll_over([position EXCEPT
                                !.rewards_estimated = reward + @,
                                !.last_update_ts = current_ts],
                           current_ts)
    IN  IF calc_period > 0
        THEN Estimated(period_reward(rewards_ratio, position.liquidity_amount,
                                     calc_period))
        ELSE roll_over(position, current_ts)

\* a faulty claim_rewards: pays the rewards owed and keeps them owed
claim_rewards_keeping_owed(position) ==
    IF position.rewards_owed = 0 THEN [err |-> "InsufficientClaimAmount"]
    ELSE [position |-> [position EXCEPT !.cumulative_interest =
                                            @ + position.rewards_owed],
          ret |-> position.rewards_owed]

\* LiquidityPosition::claim_rewards: the position and the amount, or the failure
claim_rewards(position) ==
    IF position.rewards_owed = 0 THEN [err |-> "InsufficientClaimAmount"]
    ELSE [position |-> [position EXCEPT
                            !.cumulative_interest = @ + position.rewards_owed,
                            !.rewards_owed = 0],
          ret |-> position.rewards_owed]

RemoveAt(seq, i) == SubSeq(seq, 1, i - 1) \o SubSeq(seq, i + 1, Len(seq))

\* a faulty provider_withdraw: nothing is refused, the amount is capped
provider_withdraw_capped(self, withdraw_amount, position_index) ==
    LET position == self.positions[position_index]
    IN  IF withdraw_amount >= position.liquidity_amount /\ position.rewards_owed = 0
        THEN [self EXCEPT !.positions = RemoveAt(@, position_index)]
        ELSE [self EXCEPT !.positions[position_index].liquidity_amount =
                              IF withdraw_amount > @ THEN 0 ELSE @ - withdraw_amount]

\* LiquidityProvider::withdraw: the provider, or the failure
provider_withdraw(self, withdraw_amount, position_index) ==
    LET position == self.positions[position_index]
        Withdrawn(withdrawn) ==
            IF Failed(withdrawn) THEN withdrawn
            ELSE [self EXCEPT !.positions[position_index] = withdrawn]
    IN  IF withdraw_amount = position.liquidity_amount /\ position.rewards_owed = 0
        THEN [self EXCEPT !.positions = RemoveAt(@, position_index)]
        ELSE Withdrawn(position_withdraw(position, withdraw_amount))

\* LiquidityProvider::claim, after find_position: the provider and the amount
\* claimed, or the failure
provider_claim_at(self, position_index) ==
    LET Claimed(claimed) ==
            IF Failed(claimed) THEN claimed
            ELSE IF claimed.position.liquidity_amount = 0
                    /\ claimed.position.rewards_estimated = 0
            THEN [provider |-> [self EXCEPT !.positions = RemoveAt(@, position_index)],
                  claimed_amount |-> claimed.ret]
            ELSE [provider |-> [self EXCEPT !.positions[position_index] =
                                                claimed.position],
                  claimed_amount |-> claimed.ret]
    IN  Claimed(claim_rewards(self.positions[position_index]))

\* LiquidityProvider::claim
provider_claim(self, pool) ==
    LET Found(found) ==
            IF Failed(found) THEN found ELSE provider_claim_at(self, found.index)
    IN  Found(find_position(self, pool))

\* a faulty updated_swap: the ticks are counted from the current timestamp
updated_swap_restarting_ticks(token_swap, pool_state, base_price_cumulative_last, clk) ==
    [token_swap EXCEPT
        !.pool_state = pool_state,
        !.cumulative_ticks = clk.unix_timestamp - token_swap.block_timestamp_last,
        !.block_timestamp_last = clk.unix_timestamp,
        !.base_price_cumulative_last = base_price_cumulative_last]

\* the SwapInfo a handler packs: pool state, ticks and cumulative price updated
updated_swap(token_swap, pool_state, base_price_cumulative_last, clk) ==
    [token_swap EXCEPT
        !.pool_state = pool_state,
        !.cumulative_ticks = @ + clk.unix_timestamp - token_swap.block_timestamp_last,
        !.block_timestamp_last = clk.unix_timestamp,
        !.base_price_cumulative_last = base_price_cumulative_last]

\* inputs of the Initialize instruction; mid_price is the scaled u128
InitializeInputs ==
    {[slope |-> 500000000, mid_price |-> <<0, 0, 0, 100>>, is_open_twap |-> FALSE,
      oracle |-> "unknown"],
     [slope |-> 500000000, mid_price |-> <<0, 0, 0, 100>>, is_open_twap |-> TRUE,
      oracle |-> "stale"],
     [slope |-> 500000000, mid_price |-> <<0, 0, 0, 100>>, is_open_twap |-> FALSE,
      oracle |-> "fresh120"],
     [slope |-> 1000000001, mid_price |-> <<0, 0, 0, 100>>, is_open_twap |-> FALSE,
      oracle |-> "unknown"]}

\* process_initialize: the status, the SwapInfo it packs and the shares minted
process_initialize(slope, mid_price, is_open_twap, pyth) ==
    LET Refused(status) == [status |-> status, swap |-> swap, mint_amount |-> 0]
        Packed(new_swap, mint_amount) ==
            IF ~SwapInfoPackable(new_swap) THEN Refused("Panic")
            ELSE [status |-> "Ok", swap |-> new_swap, mint_amount |-> mint_amount]
        Bought(bought) ==
            IF bought.result < 0 THEN Refused(ErrName(bought.result))
            ELSE IF clock.unix_timestamp < 0 THEN Refused("Panic")
            ELSE IF ~config.is_initialized THEN Refused("UninitializedAccount")
            ELSE Packed([is_initialized |-> TRUE, is_paused |-> FALSE,
                         fees |-> config.fees, rewards |-> config.rewards,
                         admin_fee_key_a |-> "admin_fee_a",
                         admin_fee_key_b |-> "admin_fee_b",
                         pool_state |-> bought.state, is_open_twap |-> is_open_twap,
                         block_timestamp_last |-> clock.unix_timestamp,
                         cumulative_ticks |-> 0,
                         base_price_cumulative_last |-> zero],
                        bought.result)
        Created(pool_state) ==
            IF Failed(pool_state) THEN Refused(ErrName(pool_state.err))
            ELSE Bought(buy_shares(pool_state, balances.token_a, balances.token_b,
                                   pool_mint_supply))
        Priced(from_pyth) ==
            Created(PoolState_new([market_price |-> IF IsErr(from_pyth) THEN mid_price
                                                    ELSE from_pyth,
                                   slope |-> from_scaled_val(slope),
                                   base_target |-> zero, quote_target |-> zero,
                                   base_reserve |-> zero, quote_reserve |-> zero,
                                   multiplier |-> "One"]))
    IN  IF assert_uninitialized(swap) # "Ok" THEN Refused(assert_uninitialized(swap))
        ELSE IF balances.token_b = 0 \/ balances.token_a = 0 THEN Refused("EmptySupply")
        ELSE IF pool_mint_supply # 0 THEN Refused("InvalidSupply")
        ELSE IF BCmp(from_scaled_val(slope), one) > 0 THEN Refused("InvalidSlope")
        ELSE Priced(get_market_price_from_pyth(pyth[1], pyth[2], clock))

ProcessInitialize ==
    /\ ops < MaxOps
    /\ \E input \in InitializeInputs :
       \E r \in {process_initialize(input.slope, input.mid_price, input.is_open_twap,
                                    Oracle(input.oracle, clock))} :
            /\ swap' = r.swap
            /\ pool_mint_supply' = pool_mint_supply + r.mint_amount
            /\ ops' = ops + 1
            /\ last' = IF r.status = "Ok"
                       THEN [op |-> "initialize", status |-> r.status,
                             was_paused |-> swap.is_paused, input |-> input,
                             mint_amount |-> r.mint_amount]
                       ELSE [op |-> "initialize", status |-> r.status,
                             was_paused |-> swap.is_paused]
            /\ UNCHANGED <<config, balances, provider, clock>>

\* inputs of the Swap instruction; swap_source is the custody account passed
\* as swap_source, swap_destination being the other one
SwapInputs ==
    {[amount_in |-> 100, minimum_amount_out |-> 0, swap_direction |-> "SellBase",
      swap_source |-> "token_a", oracle |-> "unknown"],
     [amount_in |-> 1000, minimum_amount_out |-> 0, swap_direction |-> "SellQuote",
      swap_source |-> "token_a", oracle |-> "malformed"],
     [amount_in |-> 100, minimum_amount_out |-> 1000000, swap_direction |-> "SellBase",
      swap_source |-> "token_a", oracle |-> "stale"],
     [amount_in |-> 100, minimum_amount_out |-> 0, swap_direction |-> "SellBase",
      swap_source |-> "token_a", oracle |-> "fresh120"],
     [amount_in |-> 0, minimum_amount_out |-> 0, swap_direction |-> "SellBase",
      swap_source |-> "token_a", oracle |-> "volatile"],
     [amount_in |-> 1, minimum_amount_out |-> 0, swap_direction |-> "SellQuote",
      swap_source |-> "token_a", oracle |-> "fresh100"]}

\* a faulty swap_amount_out: the trade fee is not deducted
swap_amount_out_gross(receive_amount, fee) == receive_amount

\* process_swap, lines 398-400: what the user is paid
swap_amount_out(receive_amount, fee) ==
    IF receive_amount < fee THEN ECalculationFailure ELSE receive_amount - fee

\* process_swap, lines 402-404: the slippage guard
exceeds_slippage(amount_out, minimum_amount_out) == amount_out < minimum_amount_out

\* process_swap, lines 446-523: the token transfers requested, in order
swap_transfers(swap_direction, swap_source, swap_destination, admin_destination, amount_in, amount_out, admin_fee) ==
    IF swap_direction = "SellBase"
    THEN <<Transfer("user", swap_source, amount_in),
           Transfer(swap_destination, "user", amount_out),
           Transfer(swap_destination, admin_destination, admin_fee)>>
    ELSE <<Transfer("user", swap_destination, amount_in),
           Transfer(swap_source, "user", amount_out),
           Transfer(swap_source, admin_destination, admin_fee)>>

\* process_swap: the status, the accounts it leaves and what it computed
process_swap(amount_in, minimum_amount_out, swap_direction, swap_source, admin_destination, pyth, overflow_checks) ==
    LET swap_destination == IF swap_source = "token_a" THEN "token_b" ELSE "token_a"
        sell_base == swap_direction = "SellBase"
        token_a_amount == balances[swap_source]
        token_b_amount == balances[swap_destination]
        Refused(status) ==
            [status |-> status, swap |-> swap, balances |-> balances,
             transfers |-> <<>>, computed |-> [none |-> TRUE]]
        Transferred(new_swap, transfers, computed, new_balances) ==
            IF Failed(new_balances) THEN Refused(new_balances.err)
            ELSE [status |-> "Ok", swap |-> new_swap, balances |-> new_balances,
                  transfers |-> transfers, computed |-> computed]
        Saved(new_swap, transfers, computed) ==
            IF new_swap.cumulative_ticks < 0 THEN Refused("CalculationFailure")
            ELSE IF ~SwapInfoPackable(new_swap) THEN Refused("Panic")
            ELSE Transferred(new_swap, transfers, computed,
                             ApplyTransfers(balances, transfers))
        Adjusted(priced, new_state, transfers, computed) ==
            IF Failed(new_state) THEN Refused(ErrName(new_state.err))
            ELSE Saved(updated_swap(priced.swap, new_state,
                                    priced.result.base_price_cumulative_last, clock),
                       transfers, computed)
        Balanced(priced, state, multiplier, base_balance, quote_balance, transfers,
                 computed) ==
            IF base_balance < 0 \/ quote_balance < 0 THEN Refused("CalculationFailure")
            ELSE Adjusted(priced,
                          PoolState_new([state EXCEPT
                                            !.base_reserve = from_u64(base_balance),
                                            !.quote_reserve = from_u64(quote_balance),
                                            !.multiplier = multiplier]),
                          transfers, computed)
        Paid(priced, state, sold, admin_fee, amount_out, computed) ==
            IF exceeds_slippage(amount_out, minimum_amount_out)
            THEN [status |-> "ExceededSlippage", swap |-> swap, balances |-> balances,
                  transfers |-> <<>>, computed |-> computed]
            ELSE Balanced(priced, state, sold.multiplier,
                          IF sell_base THEN token_a_amount + amount_in
                          ELSE token_a_amount - amount_out,
                          IF sell_base THEN token_b_amount - amount_out
                          ELSE token_b_amount + amount_in,
                          swap_transfers(swap_direction, swap_source, swap_destination,
                                         admin_destination, amount_in, amount_out,
                                         admin_fee),
                          computed)
        Charged(priced, state, sold, fee, admin_fee, amount_to_reward, amount_out) ==
            IF admin_fee < 0 THEN Refused(ErrName(admin_fee))
            ELSE IF amount_to_reward < 0 THEN Refused(ErrName(amount_to_reward))
            ELSE IF amount_out < 0 THEN Refused(ErrName(amount_out))
            ELSE Paid(priced, state, sold, admin_fee, amount_out,
                      [market_price |-> priced.result.market_price,
                       receive_amount |-> sold.amount, trade_fee |-> fee,
                       admin_fee |-> admin_fee, amount_out |-> amount_out,
                       amount_to_reward |-> amount_to_reward])
        Fee(priced, state, sold, fee) ==
            IF fee < 0 THEN Refused(ErrName(fee))
            ELSE Charged(priced, state, sold, fee,
                         admin_trade_fee(priced.swap.fees, fee),
                         trade_reward_u64(priced.swap.rewards, amount_in),
                         swap_amount_out(sold.amount, fee))
        Sold(priced, state, sold) ==
            IF Failed(sold) THEN Refused(ErrName(sold.err))
            ELSE Fee(priced, state, sold, trade_fee(priced.swap.fees, sold.amount))
        State(priced, state) ==
            IF Failed(state) THEN Refused(ErrName(state.err))
            ELSE Sold(priced, state,
                      IF sell_base THEN sell_base_token(state, amount_in)
                      ELSE sell_quote_token(state, amount_in))
        Priced(priced) ==
            IF Failed(priced.result) THEN Refused(ErrName(priced.result.err))
            ELSE State(priced,
                       PoolState_new([priced.swap.pool_state EXCEPT
                                         !.market_price = priced.result.market_price]))
    IN  IF ~config.is_initialized \/ ~swap.is_initialized
        THEN Refused("UninitializedAccount")
        ELSE IF swap.is_paused THEN Refused("IsPaused")
        ELSE IF admin_destination # required_admin_destination(swap, swap_direction,
                                                               swap_destination)
        THEN Refused("InvalidAdmin")
        ELSE IF sell_base /\ token_a_amount < amount_in THEN Refused("InsufficientFunds")
        ELSE IF ~sell_base /\ token_b_amount < amount_in THEN Refused("InsufficientFunds")
        ELSE Priced(get_new_market_price(swap, pyth[1], pyth[2], clock, overflow_checks))

Swap ==
    /\ ops < MaxOps
    /\ \E input \in SwapInputs :
       \E overflow_checks \in BOOLEAN :
       \E r \in {process_swap(input.amount_in, input.minimum_amount_out,
                              input.swap_direction, input.swap_source,
                              AdminDestination(swap, input.swap_direction, input.swap_source),
                              Oracle(input.oracle, clock), overflow_checks)} :
            /\ swap' = r.swap
            /\ balances' = r.balances
            /\ ops' = ops + 1
            /\ last' = IF r.status = "Ok"
                       THEN [op |-> "swap", status |-> r.status,
                             was_paused |-> swap.is_paused, input |-> input,
                             computed |-> r.computed, transfers |-> r.transfers]
                       ELSE IF r.status = "ExceededSlippage"
                       THEN [op |-> "swap", status |-> r.status,
                             was_paused |-> swap.is_paused, input |-> input,
                             computed |-> r.computed]
                       ELSE [op |-> "swap", status |-> r.status,
                             was_paused |-> swap.is_paused]
            /\ UNCHANGED <<config, pool_mint_supply, provider, clock>>

\* inputs of the Deposit instruction
DepositInputs ==
    {[token_a_amount |-> 100, token_b_amount |-> 10000, min_mint_amount |-> 0,
      oracle |-> "unknown"],
     [token_a_amount |-> 100, token_b_amount |-> 0, min_mint_amount |-> 0,
      oracle |-> "fresh100"],
     [token_a_amount |-> 100, token_b_amount |-> 10000, min_mint_amount |-> 1000000,
      oracle |-> "stale"]}

\* process_deposit, lines 640-666: the token transfers requested, in order
deposit_transfers(token_a_amount, token_b_amount) ==
    <<Transfer("user", "token_a", token_a_amount),
      Transfer("user", "token_b", token_b_amount)>>

MAX_LIQUIDITY_POSITIONS == 10

\* a faulty ProviderPackable: any number of positions is written
ProviderPackableAlways(self) == TRUE

\* LiquidityProvider::pack_into_slice writes ten slots: an eleventh position
\* indexes past the buffer and the program aborts
ProviderPackable(self) == Len(self.positions) <= MAX_LIQUIDITY_POSITIONS

\* process_deposit: the status, the accounts it leaves and the shares minted
process_deposit(token_a_amount, token_b_amount, min_mint_amount, pyth, overflow_checks) ==
    LET Refused(status) ==
            [status |-> status, swap |-> swap, provider |-> provider,
             balances |-> balances, transfers |-> <<>>, pool_mint_amount |-> 0,
             computed |-> [none |-> TRUE]]
        Transferred(priced, new_swap, new_provider, pool_mint_amount, transfers,
                    new_balances) ==
            IF Failed(new_balances) THEN Refused(new_balances.err)
            ELSE [status |-> "Ok", swap |-> new_swap, provider |-> new_provider,
                  balances |-> new_balances, transfers |-> transfers,
                  pool_mint_amount |-> pool_mint_amount,
                  computed |-> [market_price |-> priced.result.market_price,
                                pool_mint_amount |-> pool_mint_amount]]
        Saved(priced, new_swap, new_provider, pool_mint_amount, transfers) ==
            IF ~ProviderPackable(new_provider) THEN Refused("ProgramFailedToComplete")
            ELSE IF new_swap.cumulative_ticks < 0 THEN Refused("CalculationFailure")
            ELSE IF ~SwapInfoPackable(new_swap) THEN Refused("Panic")
            ELSE Transferred(priced, new_swap, new_provider, pool_mint_amount, transfers,
                             ApplyTransfers(balances, transfers))
        Found(priced, bought, found) ==
            Saved(priced,
                  updated_swap(priced.swap, bought.state,
                               priced.result.base_price_cumulative_last, clock),
                  [found.provider EXCEPT !.positions[found.index] =
                      position_deposit(@, bought.result)],
                  bought.result,
                  deposit_transfers(token_a_amount, token_b_amount))
        Bought(priced, bought) ==
            IF bought.result < 0 THEN Refused(ErrName(bought.result))
            ELSE IF bought.result < min_mint_amount THEN Refused("ExceededSlippage")
            ELSE Found(priced, bought,
                       find_or_add_position(provider, POOL, clock.unix_timestamp))
        State(priced, state) ==
            IF Failed(state) THEN Refused(ErrName(state.err))
            ELSE Bought(priced,
                        buy_shares(state, token_a_amount + balances.token_a,
                                   token_b_amount + balances.token_b, pool_mint_supply))
        Priced(priced) ==
            IF Failed(priced.result) THEN Refused(ErrName(priced.result.err))
            ELSE State(priced,
                       PoolState_new([priced.swap.pool_state EXCEPT
                                         !.market_price = priced.result.market_price]))
    IN  IF ~swap.is_initialized THEN Refused("UninitializedAccount")
        ELSE IF swap.is_paused THEN Refused("IsPaused")
        ELSE IF ~provider.is_initialized THEN Refused("UninitializedAccount")
        ELSE Priced(get_new_market_price(swap, pyth[1], pyth[2], clock, overflow_checks))

Deposit ==
    /\ ops < MaxOps
    /\ \E input \in DepositInputs :
       \E overflow_checks \in BOOLEAN :
       \E r \in {process_deposit(input.token_a_amount, input.token_b_amount,
                                 input.min_mint_amount, Oracle(input.oracle, clock),
                                 overflow_checks)} :
            /\ swap' = r.swap
            /\ provider' = r.provider
            /\ balances' = r.balances
            /\ pool_mint_supply' = pool_mint_supply + r.pool_mint_amount
            /\ ops' = ops + 1
            /\ last' = IF r.status = "Ok"
                       THEN [op |-> "deposit", status |-> r.status,
                             was_paused |-> swap.is_paused, input |-> input,
                             computed |-> r.computed, transfers |-> r.transfers]
                       ELSE [op |-> "deposit", status |-> r.status,
                             was_paused |-> swap.is_paused]
            /\ UNCHANGED <<config, clock>>

\* inputs of the Withdraw instruction
WithdrawInputs ==
    {[pool_token_amount |-> 100, minimum_token_a_amount |-> 0,
      minimum_token_b_amount |-> 0, oracle |-> "unknown"],
     [pool_token_amount |-> 50, minimum_token_a_amount |-> 1000,
      minimum_token_b_amount |-> 0, oracle |-> "stale"],
     [pool_token_amount |-> 10, minimum_token_a_amount |-> 0,
      minimum_token_b_amount |-> 0, oracle |-> "fresh120"]}

\* process_withdraw, lines 789-836: the token transfers requested, in order
withdraw_transfers(admin_fee_dest_a, admin_fee_dest_b, base_out_amount, admin_fee_base, quote_out_amount, admin_fee_quote) ==
    <<Transfer("token_a", "user", base_out_amount),
      Transfer("token_a", admin_fee_dest_a, admin_fee_base),
      Transfer("token_b", "user", quote_out_amount),
      Transfer("token_b", admin_fee_dest_b, admin_fee_quote)>>

\* process_withdraw: the status, the accounts it leaves and what it computed.
\* The burnt shares are those of the position, which the user holds.
process_withdraw(pool_token_amount, minimum_token_a_amount, minimum_token_b_amount, admin_fee_dest_a, admin_fee_dest_b, pyth, overflow_checks) ==
    LET Refused(status) ==
            [status |-> status, swap |-> swap, provider |-> provider,
             balances |-> balances, transfers |-> <<>>, burnt |-> 0,
             computed |-> [none |-> TRUE]]
        Transferred(new_swap, new_provider, transfers, computed, new_balances) ==
            IF Failed(new_balances) THEN Refused(new_balances.err)
            ELSE [status |-> "Ok", swap |-> new_swap, provider |-> new_provider,
                  balances |-> new_balances, transfers |-> transfers,
                  burnt |-> pool_token_amount, computed |-> computed]
        Saved(new_swap, new_provider, transfers, computed) ==
            IF new_swap.cumulative_ticks < 0 THEN Refused("CalculationFailure")
            ELSE IF ~SwapInfoPackable(new_swap) THEN Refused("Panic")
            ELSE Transferred(new_swap, new_provider, transfers, computed,
                             ApplyTransfers(balances, transfers))
        Withdrawn(priced, sold, new_provider, transfers, computed) ==
            IF Failed(new_provider) THEN Refused(new_provider.err)
            ELSE Saved(updated_swap(priced.swap, sold.state,
                                    priced.result.base_price_cumulative_last, clock),
                       new_provider, transfers, computed)
        Found(priced, sold, found, transfers, computed) ==
            IF Failed(found) THEN Refused(found.err)
            ELSE Withdrawn(priced, sold,
                           provider_withdraw(provider, pool_token_amount, found.index),
                           transfers, computed)
        QuoteCharged(priced, sold, admin_fee_base, base_out_amount, withdraw_fee_quote,
                     admin_fee_quote, quote_out_amount) ==
            IF admin_fee_quote < 0 THEN Refused(ErrName(admin_fee_quote))
            ELSE IF quote_out_amount < 0 THEN Refused("CalculationFailure")
            ELSE Found(priced, sold, find_position(provider, POOL),
                       withdraw_transfers(admin_fee_dest_a, admin_fee_dest_b,
                                          base_out_amount, admin_fee_base,
                                          quote_out_amount, admin_fee_quote),
                       [market_price |-> priced.result.market_price,
                        base_amount |-> sold.result.base_amount,
                        quote_amount |-> sold.result.quote_amount,
                        base_out_amount |-> base_out_amount,
                        quote_out_amount |-> quote_out_amount,
                        admin_fee_base |-> admin_fee_base,
                        admin_fee_quote |-> admin_fee_quote])
        QuoteFee(priced, sold, admin_fee_base, base_out_amount, withdraw_fee_quote) ==
            IF withdraw_fee_quote < 0 THEN Refused(ErrName(withdraw_fee_quote))
            ELSE QuoteCharged(priced, sold, admin_fee_base, base_out_amount,
                              withdraw_fee_quote,
                              admin_withdraw_fee(priced.swap.fees, withdraw_fee_quote),
                              sold.result.quote_amount - withdraw_fee_quote)
        BaseCharged(priced, sold, withdraw_fee_base, admin_fee_base, base_out_amount) ==
            IF admin_fee_base < 0 THEN Refused(ErrName(admin_fee_base))
            ELSE IF base_out_amount < 0 THEN Refused("CalculationFailure")
            ELSE QuoteFee(priced, sold, admin_fee_base, base_out_amount,
                          withdraw_fee(priced.swap.fees, sold.result.quote_amount))
        BaseFee(priced, sold, withdraw_fee_base) ==
            IF withdraw_fee_base < 0 THEN Refused(ErrName(withdraw_fee_base))
            ELSE BaseCharged(priced, sold, withdraw_fee_base,
                             admin_withdraw_fee(priced.swap.fees, withdraw_fee_base),
                             sold.result.base_amount - withdraw_fee_base)
        Sold(priced, sold) ==
            IF Failed(sold.result) THEN Refused(ErrName(sold.result.err))
            ELSE BaseFee(priced, sold,
                         withdraw_fee(priced.swap.fees, sold.result.base_amount))
        State(priced, state) ==
            IF Failed(state) THEN Refused(ErrName(state.err))
            ELSE Sold(priced,
                      sell_shares(state, pool_token_amount, minimum_token_a_amount,
                                  minimum_token_b_amount, pool_mint_supply))
        Priced(priced) ==
            IF Failed(priced.result) THEN Refused(ErrName(priced.result.err))
            ELSE State(priced,
                       PoolState_new([priced.swap.pool_state EXCEPT
                                         !.market_price = priced.result.market_price]))
    IN  IF ~swap.is_initialized THEN Refused("UninitializedAccount")
        ELSE IF admin_fee_dest_a # swap.admin_fee_key_a THEN Refused("InvalidAdmin")
        ELSE IF admin_fee_dest_b # swap.admin_fee_key_b THEN Refused("InvalidAdmin")
        ELSE IF pool_mint_supply = 0 THEN Refused("EmptySupply")
        ELSE IF ~provider.is_initialized THEN Refused("UninitializedAccount")
        ELSE Priced(get_new_market_price(swap, pyth[1], pyth[2], clock, overflow_checks))

Withdraw ==
    /\ ops < MaxOps
    /\ \E input \in WithdrawInputs :
       \E overflow_checks \in BOOLEAN :
       \E r \in {process_withdraw(input.pool_token_amount, input.minimum_token_a_amount,
                                  input.minimum_token_b_amount, swap.admin_fee_key_a,
                                  swap.admin_fee_key_b, Oracle(input.oracle, clock),
                                  overflow_checks)} :
            /\ swap' = r.swap
            /\ provider' = r.provider
            /\ balances' = r.balances
            /\ pool_mint_supply' = pool_mint_supply - r.burnt
            /\ ops' = ops + 1
            /\ last' = IF r.status = "Ok"
                       THEN [op |-> "withdraw", status |-> r.status,
                             was_paused |-> swap.is_paused, input |-> input,
                             computed |-> r.computed, transfers |-> r.transfers]
                       ELSE [op |-> "withdraw", status |-> r.status,
                             was_paused |-> swap.is_paused]
            /\ UNCHANGED <<config, clock>>

Next ==
    \/ Tick
    \/ AdminInitialize
    \/ Pause
    \/ Unpause
    \/ ProcessInitialize
    \/ InitLiquidityProvider
    \/ Swap
    \/ Deposit
    \/ Withdraw

Spec == Init /\ [][Next]_vars

----------------------------------------------------------------------------
(* The curve on its own: a pool built by PoolState::new, and one call of a  *)
(* PoolState method or of get_new_market_price on it.  last records the     *)
(* call, its arguments, the record it was made on and what it returned;     *)
(* swap holds the record as the call leaves it.                             *)

CurvePrices == {from_u64(100), from_u64(120)}

CurveSlopes == {zero, HALF_WAD, one}

\* InitPoolStateParams: an empty pool, a balanced one, and pools off balance
\* on either side
CurveParams ==
    {[market_price |-> p, slope |-> k, base_target |-> from_u64(t[1]),
      quote_target |-> from_u64(t[2]), base_reserve |-> from_u64(t[3]),
      quote_reserve |-> from_u64(t[4]), multiplier |-> t[5]] :
        p \in CurvePrices, k \in CurveSlopes,
        t \in {<<0, 0, 0, 0, "One">>,
               <<1000, 100000, 1000, 100000, "One">>,
               <<1000, 100000, 900, 110000, "AboveOne">>,
               <<1000, 100000, 250, 200000, "AboveOne">>,
               <<1000, 100000, 1000, 100000, "AboveOne">>,
               <<1000, 100000, 1100, 90000, "BelowOne">>,
               <<1000, 100000, 2000, 25000, "BelowOne">>,
               <<1000, 100000, 1000, 100000, "BelowOne">>}}

CurvePoolStates == {s \in {PoolState_new(params) : params \in CurveParams} : ~Failed(s)}

\* when the pool was last written, the ticks and the cumulative price by then
CurveTimings ==
    {[block_timestamp_last |-> 1, cumulative_ticks |-> 0,
      base_price_cumulative_last |-> zero],
     [block_timestamp_last |-> 2, cumulative_ticks |-> 1,
      base_price_cumulative_last |-> from_u64(100)]}

CurveSwaps ==
    {[EmptySwap EXCEPT !.is_initialized = TRUE, !.pool_state = s, !.is_open_twap = twap,
                       !.block_timestamp_last = t.block_timestamp_last,
                       !.cumulative_ticks = t.cumulative_ticks,
                       !.base_price_cumulative_last = t.base_price_cumulative_last] :
        s \in CurvePoolStates, twap \in BOOLEAN, t \in CurveTimings}

OracleKinds ==
    {"unknown", "malformed", "stale", "volatile", "fresh120", "fresh100", "fresh100_5"}

InitCurve ==
    /\ config = EmptyConfig
    /\ swap \in CurveSwaps
    /\ balances \in InitialBalances
    /\ pool_mint_supply = 0
    /\ provider = EmptyProvider
    /\ clock = [unix_timestamp |-> 2, slot |-> 10]
    /\ ops = 0
    /\ last = NoInstruction

SellBaseToken ==
    /\ last.op = "none"
    /\ \E base_amount \in {0, 1, 100, 750, 1000} :
       \E r \in {sell_base_token(swap.pool_state, base_amount)} :
            last' = [op |-> "sell_base_token", amount |-> base_amount,
                     self |-> swap.pool_state, result |-> r]
    /\ UNCHANGED <<accounts, clock, ops>>

SellQuoteToken ==
    /\ last.op = "none"
    /\ \E quote_amount \in {0, 1, 10000, 75000, 100000} :
       \E r \in {sell_quote_token(swap.pool_state, quote_amount)} :
            last' = [op |-> "sell_quote_token", amount |-> quote_amount,
                     self |-> swap.pool_state, result |-> r]
    /\ UNCHANGED <<accounts, clock, ops>>

BuyShares ==
    /\ last.op = "none"
    /\ \E base_balance \in {0, 1000, 1100, 2000}, quote_balance \in {100000, 110000, 250000},
          total_supply \in {0, 1000} :
       \E r \in {buy_shares(swap.pool_state, base_balance, quote_balance, total_supply)} :
            /\ swap' = [swap EXCEPT !.pool_state = r.state]
            /\ last' = [op |-> "buy_shares", base_balance |-> base_balance,
                        quote_balance |-> quote_balance, total_supply |-> total_supply,
                        self |-> swap.pool_state, result |-> r.result]
    /\ UNCHANGED <<config, balances, pool_mint_supply, provider, clock, ops>>

SellShares ==
    /\ last.op = "none"
    /\ \E share_amount \in {100, 500}, base_min_amount \in {0, 400},
          quote_min_amount \in {0, 40000}, total_supply \in {1000} :
       \E r \in {sell_shares(swap.pool_state, share_amount, base_min_amount,
                             quote_min_amount, total_supply)} :
            /\ swap' = [swap EXCEPT !.pool_state = r.state]
            /\ last' = [op |-> "sell_shares", share_amount |-> share_amount,
                        base_min_amount |-> base_min_amount,
                        quote_min_amount |-> quote_min_amount,
                        total_supply |-> total_supply,
                        self |-> swap.pool_state, result |-> r.result]
    /\ UNCHANGED <<config, balances, pool_mint_supply, provider, clock, ops>>

GetNewMarketPrice ==
    /\ last.op = "none"
    /\ \E oracle \in OracleKinds :
       \E overflow_checks \in BOOLEAN :
       \E r \in {get_new_market_price(swap, Oracle(oracle, clock)[1],
                                      Oracle(oracle, clock)[2], clock, overflow_checks)} :
            /\ swap' = r.swap
            /\ last' = [op |-> "get_new_market_price", oracle |-> oracle,
                        overflow_checks |-> overflow_checks,
                        token_swap |-> swap, result |-> r.result]
    /\ UNCHANGED <<config, balances, pool_mint_supply, provider, clock, ops>>

NextCurve ==
    \/ SellBaseToken
    \/ SellQuoteToken
    \/ BuyShares
    \/ SellShares
    \/ GetNewMarketPrice

CurveSpec == InitCurve /\ [][NextCurve]_vars

----------------------------------------------------------------------------
(* Properties of the curve, checked under CurveSpec.                        *)

\* the multiplier of the transition table for a sale of `amount` into the
\* side with this target and reserve: `staying` is the side the sale works
\* off, `crossing` the side it builds up
TableMultiplier(multiplier, staying, crossing, target, reserve, amount) ==
    IF multiplier # staying THEN crossing
    ELSE IF BCmp(target, BAdd(reserve, from_u64(amount))) > 0 THEN staying
    ELSE IF BCmp(target, BAdd(reserve, from_u64(amount))) = 0 THEN "One"
    ELSE crossing

\* C1: whenever sell_base_token succeeds the multiplier it returns is BelowOne
\* from One or BelowOne, and from AboveOne it is AboveOne, One or BelowOne as
\* base_target - base_reserve is greater than, equal to or less than the
\* amount; sell_quote_token is the mirror image on the quote side.
C1_MultiplierTable ==
    /\ (last.op = "sell_base_token" /\ ~Failed(last.result)) =>
          last.result.multiplier =
             TableMultiplier(last.self.multiplier, "AboveOne", "BelowOne",
                             last.self.base_target, last.self.base_reserve, last.amount)
    /\ (last.op = "sell_quote_token" /\ ~Failed(last.result)) =>
          last.result.multiplier =
             TableMultiplier(last.self.multiplier, "BelowOne", "AboveOne",
                             last.self.quote_target, last.self.quote_reserve, last.amount)

\* a sale of base of exactly base_target - base_reserve > 0 brings an AboveOne
\* pool back to One
C1_Witness ==
    /\ last.op = "sell_base_token"
    /\ last.self.multiplier = "AboveOne"
    /\ last.amount > 0
    /\ ~Failed(last.result)
    /\ last.result.multiplier = "One"

\* C7: a sell_shares that fails with WithdrawNotEnough leaves the PoolState it
\* was called on exactly as it was: targets and reserves unchanged.
C7_SellSharesFailureLeavesState ==
    (last.op = "sell_shares" /\ last.result = Fail(EWithdrawNotEnough)) =>
        swap.pool_state = last.self

\* the deviation of the market price from mid, times 100, exceeds mid
Deviates(mid, market) ==
    BCmp(BMulSmall(IF BCmp(mid, market) > 0 THEN BSub(mid, market)
                   ELSE BSub(market, mid), 100),
         mid) > 0

\* the price the deviation guard adopts
Adopted(mid, market) == IF Deviates(mid, market) THEN market ELSE mid

\* C9: the price get_new_market_price adopts is the candidate market price
\* when |mid - market| * 100 > mid and the pool's mid price otherwise; when
\* the oracle's price is the mid price, it is exactly mid.
C9_DeviationGuard ==
    (last.op = "get_new_market_price" /\ ~Failed(last.result)) =>
        LET mid == get_mid_price(last.token_swap.pool_state).price
            pyth == get_market_price_from_pyth(Oracle(last.oracle, clock)[1],
                                               Oracle(last.oracle, clock)[2], clock)
            market == candidate_price(last.token_swap, pyth,
                                      last.result.base_price_cumulative_last, mid,
                                      clock.unix_timestamp, last.overflow_checks)
        IN  /\ last.result.market_price = Adopted(mid, market)
            /\ pyth = mid => last.result.market_price = mid

\* the oracle answers a price within one percent of mid, and mid is kept
C9_Witness ==
    /\ last.op = "get_new_market_price"
    /\ last.oracle = "fresh100_5"
    /\ ~Failed(last.result)
    /\ last.result.market_price = get_mid_price(last.token_swap.pool_state).price
    /\ last.result.market_price #
          get_market_price_from_pyth(Oracle(last.oracle, clock)[1],
                                     Oracle(last.oracle, clock)[2], clock)

\* C10: a successful buy_shares with total_supply = 0 takes shares =
\* quote_balance / p when p * base_balance > quote_balance and base_balance
\* otherwise, leaves base_target = shares, quote_target = shares * p and the
\* reserves equal to the balances, and returns floor(shares).
C10_InitialMint ==
    (last.op = "buy_shares" /\ last.total_supply = 0 /\ last.result >= 0) =>
        LET p == last.self.market_price
            base_balance == from_u64(last.base_balance)
            quote_balance == from_u64(last.quote_balance)
            shares == IF BCmp(try_mul(p, base_balance), quote_balance) > 0
                      THEN try_div(quote_balance, p)
                      ELSE base_balance
        IN  /\ swap.pool_state.base_target = shares
            /\ swap.pool_state.quote_target = try_mul(shares, p)
            /\ swap.pool_state.base_reserve = base_balance
            /\ swap.pool_state.quote_reserve = quote_balance
            /\ last.result = try_floor_u64(shares)

\* an initial mint limited by the quote balance
C10_Witness ==
    /\ last.op = "buy_shares"
    /\ last.total_supply = 0
    /\ last.result > 0
    /\ swap.pool_state.base_target # from_u64(last.base_balance)
    /\ swap.pool_state.base_reserve = from_u64(last.base_balance)

----------------------------------------------------------------------------
(* Properties of the instructions, checked under Spec.                      *)

\* the instruction last processed completed, and was one of these
Completed(operations) == last.op \in operations /\ last.status = "Ok"

\* C2: in the pool state persisted by initialize, swap, deposit or withdraw,
\* multiplier = One holds exactly when base_reserve = base_target and
\* quote_reserve = quote_target.
C2_OneIffBalanced ==
    Completed({"initialize", "swap", "deposit", "withdraw"}) =>
        (swap.pool_state.multiplier = "One"
            <=> /\ swap.pool_state.base_reserve = swap.pool_state.base_target
                /\ swap.pool_state.quote_reserve = swap.pool_state.quote_target)

\* C3: in the pool state persisted by a swap, deposit or withdraw, AboveOne
\* implies quote_reserve > quote_target and base_reserve < base_target, and
\* BelowOne implies base_reserve > base_target and quote_reserve <
\* quote_target, strictly, whatever the amount traded.
C3_StrictSides ==
    Completed({"swap", "deposit", "withdraw"}) =>
        /\ swap.pool_state.multiplier = "AboveOne" =>
              /\ BCmp(swap.pool_state.quote_reserve, swap.pool_state.quote_target) > 0
              /\ BCmp(swap.pool_state.base_reserve, swap.pool_state.base_target) < 0
        /\ swap.pool_state.multiplier = "BelowOne" =>
              /\ BCmp(swap.pool_state.base_reserve, swap.pool_state.base_target) > 0
              /\ BCmp(swap.pool_state.quote_reserve, swap.pool_state.quote_target) < 0

\* the custody account a swap's input goes to, and the one it pays from
InputCustody(input) ==
    IF input.swap_direction = "SellBase" THEN input.swap_source
    ELSE IF input.swap_source = "token_a" THEN "token_b" ELSE "token_a"

OutputCustody(input) ==
    IF InputCustody(input) = "token_a" THEN "token_b" ELSE "token_a"

\* C4: a swap that succeeds takes exactly amount_in of the input token from
\* the user and pays the user amount_out = receive_amount -
\* trade_fee(receive_amount) >= minimum_amount_out; a swap whose amount_out
\* is below minimum_amount_out fails with ExceededSlippage, changing no
\* record and moving no token.
C4_SwapPaysOutOrRefuses ==
    [][(ops' = ops + 1 /\ last'.op = "swap") =>
          /\ last'.status = "Ok" =>
                /\ last'.computed.amount_out =
                      last'.computed.receive_amount
                      - trade_fee(swap.fees, last'.computed.receive_amount)
                /\ last'.computed.amount_out >= last'.input.minimum_amount_out
                /\ last'.transfers[1] = Transfer("user", InputCustody(last'.input),
                                                 last'.input.amount_in)
                /\ last'.transfers[2] = Transfer(OutputCustody(last'.input), "user",
                                                 last'.computed.amount_out)
                /\ balances'[InputCustody(last'.input)] =
                      balances[InputCustody(last'.input)] + last'.input.amount_in
                /\ balances'[OutputCustody(last'.input)] =
                      balances[OutputCustody(last'.input)]
                      - last'.computed.amount_out - last'.computed.admin_fee
          /\ last'.status = "ExceededSlippage" =>
                /\ last'.computed.amount_out < last'.input.minimum_amount_out
                /\ accounts' = accounts]_vars

\* a swap has paid out an amount net of a trade fee
C4_Witness ==
    /\ Completed({"swap"})
    /\ last.computed.trade_fee > 0
    /\ last.computed.amount_out > 0
    /\ last.input.amount_in > 0

\* C5: after a swap, deposit or withdraw that succeeds, with its transfers
\* applied, the persisted base_reserve and quote_reserve are the balances of
\* the pool's token A and token B custody accounts.
C5_ReservesAreCustodyBalances ==
    Completed({"swap", "deposit", "withdraw"}) =>
        /\ swap.pool_state.base_reserve = from_u64(balances.token_a)
        /\ swap.pool_state.quote_reserve = from_u64(balances.token_b)

\* C6: while the pool is paused no swap, deposit or withdraw is accepted:
\* each one is refused, and leaves the pool and the liquidity provider
\* unchanged.
C6_PausedRefuses ==
    [][(ops' = ops + 1 /\ last'.op \in {"swap", "deposit", "withdraw"}
          /\ swap.is_paused) =>
          /\ last'.status # "Ok"
          /\ swap' = swap
          /\ provider' = provider]_vars

FailingOracles == {"unknown", "malformed", "stale", "volatile"}

\* the TWAP of a pool: the cumulative price over now - cumulative_ticks
Twap(token_swap, base_price_cumulative, clk) ==
    try_div_u64(base_price_cumulative, clk.unix_timestamp - token_swap.cumulative_ticks)

\* what get_new_market_price answers on this pool when the oracle read fails
\* in this way: a price, adopted from the TWAP if is_open_twap and from the
\* mid price otherwise
FallsBack(token_swap, oracle, clk, mid) ==
    \A overflow_checks \in BOOLEAN :
    LET r == get_new_market_price(token_swap, Oracle(oracle, clk)[1],
                                  Oracle(oracle, clk)[2], clk, overflow_checks).result
    IN  /\ ~Failed(r)
        /\ r.market_price =
              Adopted(mid, IF token_swap.is_open_twap
                           THEN Twap(token_swap, r.base_price_cumulative_last, clk)
                           ELSE mid)

\* C8: a failing oracle read (wrong price type, malformed, stale, volatile)
\* fails no swap, deposit or withdraw: on every pool that has a mid price,
\* price selection answers with the TWAP base_price_cumulative / (now -
\* cumulative_ticks) as candidate if is_open_twap and the mid price
\* otherwise, and no instruction ends with the oracle's error.
C8_OracleFallback ==
    /\ last.op \in {"swap", "deposit", "withdraw"} =>
          last.status \notin {"InvalidOracleConfig", "InvalidAccountData"}
    /\ (swap.is_initialized /\ ~IsErr(get_mid_price(swap.pool_state).price)) =>
          \A oracle \in FailingOracles :
              FallsBack(swap, oracle, clock, get_mid_price(swap.pool_state).price)

\* a swap has completed at the TWAP on a failing oracle read
C8_Witness ==
    /\ Completed({"swap"})
    /\ last.input.oracle \in FailingOracles
    /\ swap.is_open_twap
    /\ last.input.amount_in > 0
    /\ last.computed.market_price = from_u64(50)

----------------------------------------------------------------------------
(* The liquidity provider record (state/liquidity.rs), driven as the        *)
(* handlers of processor.rs drive it: deposits, withdrawals, refreshes and  *)
(* claims on the positions of one provider of an initialized market, over   *)
(* times that span two claim periods.                                       *)

LpMaxOps == 4

\* the pools the provider deposits into, and nine pools it may already hold
LpPools == {POOL, "pool_11"}
HeldPools == <<"pool_1", "pool_2", "pool_3", "pool_4", "pool_5",
               "pool_6", "pool_7", "pool_8", "pool_9">>

LpTimes == {0, MIN_CLAIM_PERIOD \div 2, MIN_CLAIM_PERIOD - 1, MIN_CLAIM_PERIOD,
            2 * MIN_CLAIM_PERIOD}
LpDeposits == {100}
LpWithdrawals == {50, 100, 200}
\* mid prices of the pools refreshed: 0.1 and 0.0001, which
\* process_refresh_liquidity_obligation turns into the reward ratios 1 and 0.001
LpPrices == {from_scaled_val(100000000), from_scaled_val(100000)}

\* the pool account the instructions name: every pool of LpPools holds this
\* record, balanced at its market price
LpSwaps ==
    {[EmptySwap EXCEPT !.is_initialized = TRUE,
                       !.fees = DEFAULT_TEST_FEES, !.rewards = DEFAULT_TEST_REWARDS,
                       !.admin_fee_key_a = "admin_fee_a",
                       !.admin_fee_key_b = "admin_fee_b",
                       !.pool_state = [market_price |-> price,
                                       slope |-> HALF_WAD,
                                       base_target |-> from_u64(1000),
                                       quote_target |-> from_u64(100),
                                       base_reserve |-> from_u64(1000),
                                       quote_reserve |-> from_u64(100),
                                       multiplier |-> "One"]] :
        price \in LpPrices}

\* the config account after admin.rs initialize
LpConfig ==
    [is_initialized |-> TRUE, admin_key |-> "admin", deltafi_mint |-> "deltafi_mint",
     fees |-> DEFAULT_TEST_FEES, rewards |-> DEFAULT_TEST_REWARDS]

\* the program address authority_id derives from the config account
MARKET_AUTHORITY == "market_authority"

\* a provider that deposited 100 into each of the nine pools at time 0
HoldingProvider ==
    [is_initialized |-> TRUE, owner |-> "user",
     positions |-> [i \in 1..Len(HeldPools) |->
                       position_deposit(LiquidityPosition_new(HeldPools[i], 0), 100)]]

LpProviders == {[is_initialized |-> TRUE, owner |-> "user", positions |-> <<>>],
                HoldingProvider}

InitLiquidity ==
    /\ config = LpConfig
    /\ swap \in LpSwaps
    /\ balances \in InitialBalances
    /\ pool_mint_supply = 0
    /\ provider \in LpProviders
    /\ clock = [unix_timestamp |-> 0, slot |-> 0]
    /\ ops = 0
    /\ last = NoInstruction

\* the Clock sysvar advances to a later time
LpTick ==
    \E now \in LpTimes :
        /\ now > clock.unix_timestamp
        /\ clock' = [unix_timestamp |-> now, slot |-> clock.slot + 1]
        /\ UNCHANGED <<accounts, ops, last>>

\* what an instruction on the provider leaves: the record it packs, if any
LpOutcome(op, pool, amount, status, packed, claimed_amount) ==
    /\ ops < LpMaxOps
    /\ ops' = ops + 1
    /\ provider' = IF status = "Ok" THEN packed ELSE provider
    /\ last' = [op |-> op, status |-> status, was_paused |-> FALSE, pool |-> pool,
                amount |-> amount, before |-> provider,
                now |-> clock.unix_timestamp, claimed_amount |-> claimed_amount]
    /\ UNCHANGED <<config, swap, balances, pool_mint_supply, clock>>

\* process_deposit: find_or_add_position, deposit, pack
lp_deposit(self, pool, amount, current_ts) ==
    LET Found(found) ==
            [found.provider EXCEPT !.positions[found.index] =
                                       position_deposit(@, amount)]
    IN  Found(find_or_add_position(self, pool, current_ts))

LpDeposit ==
    /\ ops < LpMaxOps
    /\ \E pool \in LpPools, amount \in LpDeposits :
           \E r \in {lp_deposit(provider, pool, amount, clock.unix_timestamp)} :
               LpOutcome("lp_deposit", pool, amount,
                         IF ProviderPackable(r) THEN "Ok" ELSE "ProgramFailedToComplete",
                         r, 0)

\* process_withdraw: find_position, withdraw, pack
lp_withdraw(self, pool, amount) ==
    LET Found(found) ==
            IF Failed(found) THEN found
            ELSE provider_withdraw(self, amount, found.index)
    IN  Found(find_position(self, pool))

LpWithdraw ==
    /\ ops < LpMaxOps
    /\ \E pool \in LpPools, amount \in LpWithdrawals :
           \E r \in {lp_withdraw(provider, pool, amount)} :
               LpOutcome("lp_withdraw", pool, amount,
                         IF Failed(r) THEN r.err ELSE "Ok", r, 0)

\* process_refresh_liquidity_obligation, for one provider: find_position,
\* calc_and_update_rewards, pack
lp_refresh(self, pool, reward_ratio, current_ts) ==
    LET Updated(index, updated) ==
            IF Failed(updated) THEN updated
            ELSE [self EXCEPT !.positions[index] = updated]
        Found(found) ==
            IF Failed(found) THEN found
            ELSE Updated(found.index,
                         calc_and_update_rewards(self.positions[found.index],
                                                 reward_ratio, current_ts))
    IN  Found(find_position(self, pool))

\* process_refresh_liquidity_obligation, lines 943-954: the loop over the
\* provider accounts passed; the first failure fails the instruction
RECURSIVE refresh_liquidity_providers(_, _, _, _)
refresh_liquidity_providers(liquidity_providers, pool, reward_ratio, current_ts) ==
    LET Rest(refreshed, rest) ==
            IF Failed(rest) THEN rest
            ELSE [providers |-> <<refreshed>> \o rest.providers]
        First(refreshed) ==
            IF Failed(refreshed) THEN refreshed
            ELSE Rest(refreshed,
                      refresh_liquidity_providers(Tail(liquidity_providers), pool,
                                                  reward_ratio, current_ts))
    IN  IF liquidity_providers = <<>> THEN [providers |-> <<>>]
        ELSE IF ~Head(liquidity_providers).is_initialized
        THEN [err |-> "UninitializedAccount"]
        ELSE First(lp_refresh(Head(liquidity_providers), pool, reward_ratio, current_ts))

\* process_refresh_liquidity_obligation on the pool account pool, which holds
\* token_swap: the status, the reward ratio and the provider records packed
process_refresh_liquidity_obligation(pool, token_swap, liquidity_providers, clk) ==
    LET Refused(status) ==
            [status |-> status, reward_ratio |-> zero, providers |-> liquidity_providers]
        Refreshed(reward_ratio, refreshed) ==
            IF Failed(refreshed) THEN Refused(refreshed.err)
            ELSE [status |-> "Ok", reward_ratio |-> reward_ratio,
                  providers |-> refreshed.providers]
        Ratio(reward_ratio) ==
            IF IsErr(reward_ratio) THEN Refused(ErrName(reward_ratio[1]))
            ELSE Refreshed(reward_ratio,
                           refresh_liquidity_providers(liquidity_providers, pool,
                                                       reward_ratio, clk.unix_timestamp))
        Priced(lp_price, deltafi_price) ==
            IF IsErr(lp_price) THEN Refused(ErrName(lp_price[1]))
            ELSE IF IsErr(deltafi_price) THEN Refused(ErrName(deltafi_price[1]))
            ELSE Ratio(try_div(lp_price, deltafi_price))
    IN  IF ~token_swap.is_initialized THEN Refused("UninitializedAccount")
        ELSE Priced(get_mid_price(token_swap.pool_state).price, try_div_u64(one, 10))

\* the provider accounts a refresh is sent with: the provider's, alone or
\* followed by an account that was never initialized
LpRefreshed(self) == {<<self>>, <<self, EmptyProvider>>}

LpRefresh ==
    /\ ops < LpMaxOps
    /\ \E pool \in LpPools, liquidity_providers \in LpRefreshed(provider) :
           \E r \in {process_refresh_liquidity_obligation(pool, swap, liquidity_providers,
                                                          clock)} :
               LpOutcome("lp_refresh", pool, r.reward_ratio, r.status,
                         r.providers[1], 0)

\* process_claim_liquidity_rewards on the pool account pool: the status, the
\* LiquidityProvider it packs and the reward it mints
process_claim_liquidity_rewards(pool, market_authority, liquidity_owner_info, claim_destination_owner, claim_mint) ==
    LET Refused(status) ==
            [status |-> status, provider |-> provider, reward_amount |-> 0]
        Claimed(c) ==
            IF Failed(c) THEN Refused(c.err)
            ELSE IF ~ProviderPackable(c.provider) THEN Refused("ProgramFailedToComplete")
            ELSE [status |-> "Ok", provider |-> c.provider,
                  reward_amount |-> c.claimed_amount]
    IN  IF ~config.is_initialized THEN Refused("UninitializedAccount")
        ELSE IF market_authority # MARKET_AUTHORITY THEN Refused("InvalidProgramAddress")
        ELSE IF config.deltafi_mint # claim_mint THEN Refused("IncorrectMint")
        ELSE IF claim_destination_owner = market_authority THEN Refused("InvalidOwner")
        ELSE IF ~provider.is_initialized THEN Refused("UninitializedAccount")
        ELSE IF provider.owner # liquidity_owner_info.key THEN Refused("InvalidOwner")
        ELSE IF ~liquidity_owner_info.is_signer THEN Refused("InvalidSigner")
        ELSE Claimed(provider_claim(provider, pool))

\* process_claim_liquidity_rewards, signed by the owner of the provider record,
\* with the accounts the config names
LpClaim ==
    /\ ops < LpMaxOps
    /\ \E pool \in LpPools :
           \E r \in {process_claim_liquidity_rewards(pool, MARKET_AUTHORITY,
                          [key |-> provider.owner, is_signer |-> TRUE], "user",
                          config.deltafi_mint)} :
               LpOutcome("lp_claim", pool, 0, r.status, r.provider, r.reward_amount)

NextLiquidity ==
    \/ LpTick
    \/ LpDeposit
    \/ LpWithdraw
    \/ LpRefresh
    \/ LpClaim

LiquiditySpec == InitLiquidity /\ [][NextLiquidity]_vars

----------------------------------------------------------------------------
(* Properties of the liquidity provider record, checked under              *)
(* LiquiditySpec.                                                           *)

Holds(self, pool) == find_position_index(self, pool) # 0

PositionOf(self, pool) == self.positions[find_position_index(self, pool)]

AllPools == LpPools \cup {HeldPools[i] : i \in 1..Len(HeldPools)}

\* this step is the instruction op on this pool
Acts(op, pool) == ops' = ops + 1 /\ last'.op = op /\ last'.pool = pool

\* C11: a position is created with rewards_owed = 0 and next_claim_ts = now +
\* MIN_CLAIM_PERIOD; while rewards_owed = 0 every claim on it fails with
\* InsufficientClaimAmount, and rewards_owed leaves 0 only in a refresh at a
\* time now >= next_claim_ts; a refresh before next_claim_ts never lowers
\* rewards_estimated and changes neither rewards_owed, liquidity_amount nor
\* next_claim_ts.
C11_OwedOnlyAfterClaimPeriod ==
    [][\A pool \in AllPools :
          /\ (~Holds(provider, pool) /\ Holds(provider', pool)) =>
                /\ PositionOf(provider', pool).rewards_owed = 0
                /\ PositionOf(provider', pool).next_claim_ts =
                      clock.unix_timestamp + MIN_CLAIM_PERIOD
          /\ (Holds(provider, pool) /\ PositionOf(provider, pool).rewards_owed = 0) =>
                /\ Acts("lp_claim", pool) => last'.status = "InsufficientClaimAmount"
                /\ (Holds(provider', pool)
                      /\ PositionOf(provider', pool).rewards_owed # 0) =>
                      /\ Acts("lp_refresh", pool)
                      /\ clock.unix_timestamp >= PositionOf(provider, pool).next_claim_ts
                /\ (Acts("lp_refresh", pool) /\ last'.status = "Ok"
                      /\ clock.unix_timestamp < PositionOf(provider, pool).next_claim_ts) =>
                      /\ PositionOf(provider', pool).rewards_estimated >=
                            PositionOf(provider, pool).rewards_estimated
                      /\ PositionOf(provider', pool).rewards_owed = 0
                      /\ PositionOf(provider', pool).liquidity_amount =
                            PositionOf(provider, pool).liquidity_amount
                      /\ PositionOf(provider', pool).next_claim_ts =
                            PositionOf(provider, pool).next_claim_ts]_vars

\* a claim was refused on a position that has estimated rewards, before its
\* claim period ended
C11_Witness ==
    /\ last.op = "lp_claim"
    /\ last.status = "InsufficientClaimAmount"
    /\ Holds(provider, last.pool)
    /\ PositionOf(provider, last.pool).rewards_estimated > 0
    /\ last.now < PositionOf(provider, last.pool).next_claim_ts
    /\ last.now > 0

\* C12: a claim on a position with rewards_owed = 0 fails with
\* InsufficientClaimAmount and changes nothing; any other claim returns the
\* rewards owed, adds them to cumulative_interest and sets rewards_owed to 0
\* (the position leaves the provider if it holds no liquidity and no estimated
\* rewards), and a second claim right after it fails.
C12_ClaimPaysOwedOnce ==
    (last.op = "lp_claim" /\ Holds(last.before, last.pool)) =>
        IF PositionOf(last.before, last.pool).rewards_owed = 0
        THEN /\ last.status = "InsufficientClaimAmount"
             /\ provider = last.before
             /\ claim_rewards(PositionOf(last.before, last.pool)) =
                   [err |-> "InsufficientClaimAmount"]
        ELSE /\ last.status = "Ok"
             /\ last.claimed_amount = PositionOf(last.before, last.pool).rewards_owed
             /\ claim_rewards(PositionOf(last.before, last.pool)).position =
                   [PositionOf(last.before, last.pool) EXCEPT
                       !.cumulative_interest =
                           @ + PositionOf(last.before, last.pool).rewards_owed,
                       !.rewards_owed = 0]
             /\ IF Holds(provider, last.pool)
                THEN PositionOf(provider, last.pool) =
                        claim_rewards(PositionOf(last.before, last.pool)).position
                ELSE /\ PositionOf(last.before, last.pool).liquidity_amount = 0
                     /\ PositionOf(last.before, last.pool).rewards_estimated = 0
             /\ Failed(provider_claim(provider, last.pool))

\* a claim has paid rewards
C12_Witness ==
    /\ last.op = "lp_claim"
    /\ last.status = "Ok"
    /\ last.claimed_amount > 0
    /\ Holds(provider, last.pool)
    /\ PositionOf(provider, last.pool).cumulative_interest = last.claimed_amount

\* C14: a withdrawal of more than the position's liquidity_amount fails with
\* InsufficientLiquidity and leaves the provider unchanged; any other
\* withdrawal lowers liquidity_amount by exactly the amount (the position
\* leaves the provider when that is 0 and no rewards are owed).
C14_WithdrawWithinLiquidity ==
    (last.op = "lp_withdraw" /\ Holds(last.before, last.pool)) =>
        IF last.amount > PositionOf(last.before, last.pool).liquidity_amount
        THEN /\ last.status = "InsufficientLiquidity"
             /\ provider = last.before
        ELSE /\ last.status = "Ok"
             /\ IF Holds(provider, last.pool)
                THEN PositionOf(provider, last.pool) =
                        [PositionOf(last.before, last.pool) EXCEPT
                            !.liquidity_amount = @ - last.amount]
                ELSE /\ last.amount = PositionOf(last.before, last.pool).liquidity_amount
                     /\ PositionOf(last.before, last.pool).rewards_owed = 0

\* a withdrawal of more than the position holds was refused
C14_Witness ==
    /\ last.op = "lp_withdraw"
    /\ last.status = "InsufficientLiquidity"
    /\ Holds(provider, last.pool)
    /\ last.amount > PositionOf(provider, last.pool).liquidity_amount
    /\ PositionOf(provider, last.pool).liquidity_amount > 0

\* C15: the provider record never holds more than MAX_LIQUIDITY_POSITIONS
\* positions, whatever pools are deposited into.
C15_AtMostTenPositions == Len(provider.positions) <= MAX_LIQUIDITY_POSITIONS

\* a deposit into an eleventh pool was attempted
C15_Witness ==
    /\ last.op = "lp_deposit"
    /\ last.status # "Ok"
    /\ ~Holds(provider, last.pool)
    /\ Len(provider.positions) = MAX_LIQUIDITY_POSITIONS

\* C16: a withdrawal or a claim removes a position only if, after it, the
\* position would hold no liquidity, no rewards owed and no estimated rewards.
C16_RemovalDiscardsNothing ==
    (last.op \in {"lp_withdraw", "lp_claim"} /\ last.status = "Ok"
        /\ Holds(last.before, last.pool) /\ ~Holds(provider, last.pool)) =>
        /\ PositionOf(last.before, last.pool).liquidity_amount =
              (IF last.op = "lp_withdraw" THEN last.amount ELSE 0)
        /\ (last.op = "lp_withdraw" =>
               PositionOf(last.before, last.pool).rewards_owed = 0)
        /\ PositionOf(last.before, last.pool).rewards_estimated = 0

----------------------------------------------------------------------------
(* One position refreshed at regular intervals with a constant ratio, as    *)
(* test_update_rewards of state/liquidity.rs does.                          *)

MaxPeriods == 2

RewardIntervals == {MIN_CLAIM_PERIOD, MIN_CLAIM_PERIOD \div 2, MIN_CLAIM_PERIOD \div 720}
RewardLiquidity == {100, 1000, 100000}
RewardRatios == {one, HALF_WAD, from_scaled_val(1000000)}

InitReward ==
    /\ config = EmptyConfig
    /\ swap = EmptySwap
    /\ balances \in InitialBalances
    /\ pool_mint_supply = 0
    /\ clock = [unix_timestamp |-> 0, slot |-> 0]
    /\ ops = 0
    /\ \E liquidity_amount \in RewardLiquidity, reward_ratio \in RewardRatios,
          interval \in RewardIntervals :
          /\ provider = lp_deposit([is_initialized |-> TRUE, owner |-> "user",
                                    positions |-> <<>>],
                                   POOL, liquidity_amount, 0)
          /\ last = [op |-> "refresh_regularly", status |-> "Ok", was_paused |-> FALSE,
                     liquidity_amount |-> liquidity_amount,
                     reward_ratio |-> reward_ratio, interval |-> interval]

\* the next refresh of the position, one interval later
RegularRefresh ==
    /\ clock.unix_timestamp + last.interval <= MaxPeriods * MIN_CLAIM_PERIOD
    /\ clock' = [unix_timestamp |-> clock.unix_timestamp + last.interval,
                 slot |-> clock.slot + 1]
    /\ provider' = lp_refresh(provider, POOL, last.reward_ratio,
                              clock.unix_timestamp + last.interval)
    /\ UNCHANGED <<config, swap, balances, pool_mint_supply, ops, last>>

NextReward == RegularRefresh

RewardSpec == InitReward /\ [][NextReward]_vars

\* the reward of one full claim period, floor(reward_ratio * liquidity_amount)
FullPeriodReward(reward_ratio, liquidity_amount) ==
    try_floor_u64(try_mul_u64(reward_ratio, liquidity_amount))

\* C13: with constant liquidity_amount and reward_ratio and refreshes at regular
\* intervals from time 0, after N full claim periods rewards_owed is at most
\* N * P and at least 99.9% of N * P, P being the reward of one full period.
C13_RewardBound ==
    \A N \in 1..MaxPeriods :
        clock.unix_timestamp = N * MIN_CLAIM_PERIOD =>
            /\ PositionOf(provider, POOL).rewards_owed <=
                  N * FullPeriodReward(last.reward_ratio, last.liquidity_amount)
            /\ 1000 * PositionOf(provider, POOL).rewards_owed >=
                  999 * N * FullPeriodReward(last.reward_ratio, last.liquidity_amount)

----------------------------------------------------------------------------
(* The admin instructions of admin.rs on an initialized pool.               *)

AdmMaxOps == 3

\* accounts passed as admin_info, and keys proposed as the new admin
AdminInfos == {[key |-> k, is_signer |-> s] : k \in Keys \cup {"admin_2"}, s \in BOOLEAN}
NewAdminKeys == {"user", "admin_2"}

\* token accounts passed to set_fee_account as the new fee account
NewFeeAccounts ==
    {[key |-> "fee_a_2", mint |-> "mint_a", owner |-> "authority"],
     [key |-> "fee_b_2", mint |-> "mint_b", owner |-> "authority"],
     [key |-> "fee_c", mint |-> "mint_c", owner |-> "authority"],
     [key |-> "fee_user", mint |-> "mint_a", owner |-> "user"]}

NewFees == {DEFAULT_TEST_FEES,
            [DEFAULT_TEST_FEES EXCEPT !.trade_fee_numerator = 1]}
NewRewards == {DEFAULT_TEST_REWARDS,
               [DEFAULT_TEST_REWARDS EXCEPT !.trade_reward_cap = 10]}

\* pools an admin instruction is sent to
AdminSwaps ==
    {[s EXCEPT !.fees = DEFAULT_TEST_FEES, !.rewards = DEFAULT_TEST_REWARDS,
               !.admin_fee_key_a = "admin_fee_a", !.admin_fee_key_b = "admin_fee_b"] :
        s \in {t \in CurveSwaps : t.pool_state.multiplier = "One" /\ ~t.is_open_twap
                                      /\ t.block_timestamp_last = 1}}

InitAdmin ==
    /\ config = EmptyConfig
    /\ swap \in AdminSwaps
    /\ balances \in InitialBalances
    /\ pool_mint_supply = 0
    /\ provider = EmptyProvider
    /\ clock = [unix_timestamp |-> 1, slot |-> 10]
    /\ ops = 0
    /\ last = NoInstruction

\* what an admin instruction leaves: the records it packs and the
\* cross-program invocations it makes, or its failure and nothing else
AdminResult(status, new_config, new_swap, invoked) ==
    [status |-> status,
     config |-> IF status = "Ok" THEN new_config ELSE config,
     swap |-> IF status = "Ok" THEN new_swap ELSE swap,
     invoked |-> IF status = "Ok" THEN invoked ELSE <<>>]

\* the checks every instruction on a pool starts with: unpack ConfigInfo,
\* is_admin, unpack SwapInfo
admin_checks(admin_info) ==
    IF ~config.is_initialized THEN "UninitializedAccount"
    ELSE IF is_admin_account(config.admin_key, admin_info) # "Ok"
    THEN is_admin_account(config.admin_key, admin_info)
    ELSE IF ~swap.is_initialized THEN "UninitializedAccount"
    ELSE "Ok"

\* admin.rs pause
pause(admin_info) ==
    AdminResult(admin_checks(admin_info), config, [swap EXCEPT !.is_paused = TRUE], <<>>)

\* admin.rs unpause
unpause(admin_info) ==
    AdminResult(admin_checks(admin_info), config, [swap EXCEPT !.is_paused = FALSE], <<>>)

\* admin.rs set_fee_account, with the pool's own authority passed
set_fee_account(admin_info, new_fee_account) ==
    IF admin_checks(admin_info) # "Ok"
    THEN AdminResult(admin_checks(admin_info), config, swap, <<>>)
    ELSE IF new_fee_account.owner # "authority"
    THEN AdminResult("InvalidOwner", config, swap, <<>>)
    ELSE IF new_fee_account.mint = "mint_a"
    THEN AdminResult("Ok", config,
                     [swap EXCEPT !.admin_fee_key_a = new_fee_account.key], <<>>)
    ELSE IF new_fee_account.mint = "mint_b"
    THEN AdminResult("Ok", config,
                     [swap EXCEPT !.admin_fee_key_b = new_fee_account.key], <<>>)
    ELSE AdminResult("IncorrectMint", config, swap, <<>>)

\* admin.rs commit_new_admin: the admin is the mint's freeze authority, and
\* its signature is passed on to set_authority
commit_new_admin(admin_info, new_admin_key) ==
    IF ~config.is_initialized
    THEN AdminResult("UninitializedAccount", config, swap, <<>>)
    ELSE AdminResult(is_admin_account(config.admin_key, admin_info),
                     [config EXCEPT !.admin_key = new_admin_key], swap,
                     <<[invoke |-> "set_authority", new_authority |-> new_admin_key,
                        owner |-> admin_info.key]>>)

\* admin.rs set_new_fees
set_new_fees(admin_info, new_fees) ==
    AdminResult(admin_checks(admin_info), config, [swap EXCEPT !.fees = new_fees], <<>>)

\* admin.rs set_new_rewards
set_new_rewards(admin_info, new_rewards) ==
    AdminResult(admin_checks(admin_info), config,
                [swap EXCEPT !.rewards = new_rewards], <<>>)

\* an admin instruction processed
AdminOutcome(op, admin_info, r) ==
    /\ ops < AdmMaxOps
    /\ ops' = ops + 1
    /\ config' = r.config
    /\ swap' = r.swap
    /\ last' = [op |-> op, status |-> r.status, was_paused |-> swap.is_paused,
                admin_info |-> admin_info, invoked |-> r.invoked]
    /\ UNCHANGED <<balances, pool_mint_supply, provider, clock>>

AdmPause ==
    \E admin_info \in AdminInfos : AdminOutcome("pause", admin_info, pause(admin_info))

AdmUnpause ==
    \E admin_info \in AdminInfos : AdminOutcome("unpause", admin_info, unpause(admin_info))

SetFeeAccount ==
    \E admin_info \in AdminInfos, new_fee_account \in NewFeeAccounts :
        AdminOutcome("set_fee_account", admin_info,
                     set_fee_account(admin_info, new_fee_account))

CommitNewAdmin ==
    \E admin_info \in AdminInfos, new_admin_key \in NewAdminKeys :
        AdminOutcome("commit_new_admin", admin_info,
                     commit_new_admin(admin_info, new_admin_key))

SetNewFees ==
    \E admin_info \in AdminInfos, new_fees \in NewFees :
        AdminOutcome("set_new_fees", admin_info, set_new_fees(admin_info, new_fees))

SetNewRewards ==
    \E admin_info \in AdminInfos, new_rewards \in NewRewards :
        AdminOutcome("set_new_rewards", admin_info,
                     set_new_rewards(admin_info, new_rewards))

NextAdmin ==
    \/ AdminInitialize
    \/ AdmPause
    \/ AdmUnpause
    \/ SetFeeAccount
    \/ CommitNewAdmin
    \/ SetNewFees
    \/ SetNewRewards

AdminSpec == InitAdmin /\ [][NextAdmin]_vars

AdminOps == {"pause", "unpause", "set_fee_account", "commit_new_admin",
             "set_new_fees", "set_new_rewards"}

----------------------------------------------------------------------------
(* Initialization of the three records, by any caller, any number of times. *)

InitMaxOps == 3

\* the accounts passed as admin_info and as liquidity_owner_info
InitAdminInfos == {[key |-> "admin", is_signer |-> s] : s \in BOOLEAN}
InitOwnerInfos == {[key |-> "user", is_signer |-> s] : s \in BOOLEAN}

InitInitialize ==
    /\ config = EmptyConfig
    /\ swap = EmptySwap
    /\ balances \in InitialBalances
    /\ pool_mint_supply = 0
    /\ provider = EmptyProvider
    /\ clock = [unix_timestamp |-> 1, slot |-> 10]
    /\ ops = 0
    /\ last = NoInstruction

\* AdminInstruction::Initialize processed
ConfigInitialize ==
    /\ ops < InitMaxOps
    /\ \E admin_info \in InitAdminInfos, fees \in NewFees, rewards \in NewRewards :
       \E r \in {initialize(admin_info, fees, rewards)} :
            /\ config' = r.config
            /\ ops' = ops + 1
            /\ last' = [op |-> "admin_initialize", status |-> r.status,
                        was_paused |-> swap.is_paused, admin_info |-> admin_info]
            /\ UNCHANGED <<swap, balances, pool_mint_supply, provider, clock>>

\* SwapInstruction::InitLiquidityProvider processed
ProviderInitialize ==
    /\ ops < InitMaxOps
    /\ \E liquidity_owner_info \in InitOwnerInfos :
       \E r \in {process_init_liquidity_provider(liquidity_owner_info)} :
            /\ provider' = r.provider
            /\ ops' = ops + 1
            /\ last' = [op |-> "init_liquidity_provider", status |-> r.status,
                        was_paused |-> swap.is_paused,
                        liquidity_owner_info |-> liquidity_owner_info]
            /\ UNCHANGED <<config, swap, balances, pool_mint_supply, clock>>

NextInitialize ==
    \/ ConfigInitialize
    \/ ProcessInitialize
    \/ ProviderInitialize

InitializeSpec == InitInitialize /\ [][NextInitialize]_vars

\* C18, as stated: initializing a pool record, a config record or a
\* liquidity-provider record that is already initialized fails with
\* AlreadyInUse and leaves the record as it was.
C18_ReinitializeAlreadyInUse ==
    [][/\ (ops' = ops + 1 /\ last'.op = "initialize" /\ swap.is_initialized) =>
             (last'.status = "AlreadyInUse" /\ swap' = swap)
       /\ (ops' = ops + 1 /\ last'.op = "admin_initialize" /\ config.is_initialized) =>
             (last'.status = "AlreadyInUse" /\ config' = config)
       /\ (ops' = ops + 1 /\ last'.op = "init_liquidity_provider"
              /\ provider.is_initialized) =>
             (last'.status = "AlreadyInUse" /\ provider' = provider)]_vars

\* C18, amended: initializing an initialized pool record or liquidity-provider
\* record fails with AlreadyInUse; initializing an initialized config record
\* fails with AlreadyInUse when the admin has signed and with
\* MissingRequiredSignature when it has not; the record is left as it was.
C18_ReinitializeRefused ==
    [][/\ (ops' = ops + 1 /\ last'.op = "initialize" /\ swap.is_initialized) =>
             (last'.status = "AlreadyInUse" /\ swap' = swap)
       /\ (ops' = ops + 1 /\ last'.op = "admin_initialize" /\ config.is_initialized) =>
             /\ last'.status = IF last'.admin_info.is_signer THEN "AlreadyInUse"
                               ELSE "MissingRequiredSignature"
             /\ config' = config
       /\ (ops' = ops + 1 /\ last'.op = "init_liquidity_provider"
              /\ provider.is_initialized) =>
             (last'.status = "AlreadyInUse" /\ provider' = provider)]_vars

\* the signing admin initialized the config a second time, over an initialized
\* pool, and was refused
C18_Witness ==
    /\ last.op = "admin_initialize"
    /\ last.status = "AlreadyInUse"
    /\ config.is_initialized
    /\ swap.is_initialized

----------------------------------------------------------------------------
\* C19: every pool state persisted by initialize, swap, deposit or withdraw has
\* market_price > 0, whichever source the adopted price came from.
C19_MarketPricePositive ==
    swap.is_initialized => BCmp(swap.pool_state.market_price, zero) > 0

----------------------------------------------------------------------------
(* The handlers that move tokens, step by step: each handler first runs its *)
(* checks and computations, then packs the records it modifies and invokes  *)
(* the token program, in the order of its source.                           *)

StepMaxOps == 3

Pack(record, value) == [kind |-> "pack", record |-> record, value |-> value]
TokenTransfer(transfer) == [kind |-> "token_transfer", transfer |-> transfer]
TokenMintTo(mint, amount) == [kind |-> "token_mint_to", mint |-> mint, amount |-> amount]
TokenBurn(amount) == [kind |-> "token_burn", amount |-> amount]

TokenMovements == {"token_transfer", "token_mint_to", "token_burn"}

RECURSIVE TransferSteps(_)
TransferSteps(transfers) ==
    IF transfers = <<>> THEN <<>>
    ELSE <<TokenTransfer(Head(transfers))>> \o TransferSteps(Tail(transfers))

\* process_initialize after its checks: SwapInfo::pack, token_mint_to
process_initialize_steps(r) ==
    <<Pack("swap", r.swap), TokenMintTo("pool_mint", r.mint_amount)>>

\* a faulty process_swap: the tokens move before SwapInfo is packed
process_swap_steps_transfer_first(r) ==
    TransferSteps(r.transfers)
        \o <<TokenMintTo("deltafi_mint", r.computed.amount_to_reward),
             Pack("swap", r.swap)>>

\* process_swap after its checks: SwapInfo::pack, three token_transfer,
\* token_mint_to of the reward
process_swap_steps(r) ==
    <<Pack("swap", r.swap)>> \o TransferSteps(r.transfers)
        \o <<TokenMintTo("deltafi_mint", r.computed.amount_to_reward)>>

\* process_deposit after its checks: LiquidityProvider::pack, SwapInfo::pack,
\* two token_transfer, token_mint_to of the shares
process_deposit_steps(r) ==
    <<Pack("provider", r.provider), Pack("swap", r.swap)>>
        \o TransferSteps(r.transfers)
        \o <<TokenMintTo("pool_mint", r.pool_mint_amount)>>

\* process_withdraw after its checks: LiquidityProvider::pack, SwapInfo::pack,
\* four token_transfer, token_burn of the shares
process_withdraw_steps(r) ==
    <<Pack("provider", r.provider), Pack("swap", r.swap)>>
        \o TransferSteps(r.transfers)
        \o <<TokenBurn(r.burnt)>>

\* process_claim_liquidity_rewards after its checks: LiquidityProvider::pack,
\* token_mint_to of the reward
process_claim_steps(r) ==
    <<Pack("provider", r.provider), TokenMintTo("deltafi_mint", r.reward_amount)>>

\* a provider that is owed rewards in another pool, after a full claim period
RewardedProvider ==
    [is_initialized |-> TRUE, owner |-> "user",
     positions |-> <<calc_and_update_rewards(
                        position_deposit(LiquidityPosition_new("pool_11", 0), 100),
                        one, MIN_CLAIM_PERIOD)>>]

NoHandler ==
    [op |-> "none", status |-> "Ok", was_paused |-> FALSE, done |-> <<>>,
     pending |-> <<>>, target |-> [swap |-> EmptySwap, provider |-> EmptyProvider]]

InitStep ==
    /\ config = EmptyConfig
    /\ swap = EmptySwap
    /\ balances \in InitialBalances
    /\ pool_mint_supply = 0
    /\ provider \in {EmptyProvider, RewardedProvider}
    /\ clock = [unix_timestamp |-> MIN_CLAIM_PERIOD, slot |-> 10]
    /\ ops = 0
    /\ last = NoHandler

\* no handler is in progress
Idle == ops < StepMaxOps /\ last.pending = <<>>

\* a handler has run its checks and computations: a failure ends it with
\* nothing changed; a token movement the token program refuses ends it with
\* everything rolled back; otherwise its packs and invocations are to come
Begin(op, status, steps, target) ==
    /\ ops' = ops + 1
    /\ last' = [op |-> op, status |-> status, was_paused |-> swap.is_paused,
                done |-> IF status = "TokenInsufficientFunds"
                         THEN <<[kind |-> "token_transfer", refused |-> TRUE]>>
                         ELSE <<>>,
                pending |-> IF status = "Ok" THEN steps ELSE <<>>,
                target |-> target]
    /\ UNCHANGED <<config, swap, balances, pool_mint_supply, provider, clock>>

BeginInitialize ==
    /\ Idle
    /\ \E input \in InitializeInputs :
       \E r \in {process_initialize(input.slope, input.mid_price, input.is_open_twap,
                                 Oracle(input.oracle, clock))} :
            Begin("initialize", r.status, process_initialize_steps(r),
                  [swap |-> r.swap, provider |-> provider])

BeginSwap ==
    /\ Idle
    /\ \E input \in SwapInputs :
       \E overflow_checks \in BOOLEAN :
       \E r \in {process_swap(input.amount_in, input.minimum_amount_out,
                              input.swap_direction, input.swap_source,
                              AdminDestination(swap, input.swap_direction, input.swap_source),
                              Oracle(input.oracle, clock), overflow_checks)} :
            Begin("swap", r.status, process_swap_steps(r),
                  [swap |-> r.swap, provider |-> provider])

BeginDeposit ==
    /\ Idle
    /\ \E input \in DepositInputs :
       \E overflow_checks \in BOOLEAN :
       \E r \in {process_deposit(input.token_a_amount, input.token_b_amount,
                                 input.min_mint_amount, Oracle(input.oracle, clock),
                                 overflow_checks)} :
            Begin("deposit", r.status, process_deposit_steps(r),
                  [swap |-> r.swap, provider |-> r.provider])

BeginWithdraw ==
    /\ Idle
    /\ \E input \in WithdrawInputs :
       \E overflow_checks \in BOOLEAN :
       \E r \in {process_withdraw(input.pool_token_amount, input.minimum_token_a_amount,
                                  input.minimum_token_b_amount, swap.admin_fee_key_a,
                                  swap.admin_fee_key_b, Oracle(input.oracle, clock),
                                  overflow_checks)} :
            Begin("withdraw", r.status, process_withdraw_steps(r),
                  [swap |-> r.swap, provider |-> r.provider])

BeginClaim ==
    /\ Idle
    /\ \E pool \in LpPools :
       \E r \in {process_claim_liquidity_rewards(pool, MARKET_AUTHORITY,
                       [key |-> provider.owner, is_signer |-> TRUE], "user",
                       config.deltafi_mint)} :
            Begin("claim", r.status, process_claim_steps(r),
                  [swap |-> swap, provider |-> r.provider])

\* the next pack or invocation of the handler in progress
RunStep ==
    /\ last.pending # <<>>
    /\ \E s \in {Head(last.pending)} :
        /\ swap' = IF s.kind = "pack" /\ s.record = "swap" THEN s.value ELSE swap
        /\ provider' = IF s.kind = "pack" /\ s.record = "provider" THEN s.value
                       ELSE provider
        /\ balances' = IF s.kind = "token_transfer"
                       THEN ApplyTransfers(balances, <<s.transfer>>)
                       ELSE balances
        /\ pool_mint_supply' =
                IF s.kind = "token_mint_to" /\ s.mint = "pool_mint"
                THEN pool_mint_supply + s.amount
                ELSE IF s.kind = "token_burn" THEN pool_mint_supply - s.amount
                ELSE pool_mint_supply
        /\ last' = [last EXCEPT !.done = Append(@, s), !.pending = Tail(@)]
    /\ UNCHANGED <<config, clock, ops>>

\* instructions are processed one at a time: the two initializations run
\* between handlers
BetweenHandlers(instruction) == last.pending = <<>> /\ instruction

NextStep ==
    \/ BetweenHandlers(AdminInitialize)
    \/ BetweenHandlers(InitLiquidityProvider)
    \/ BeginInitialize
    \/ BeginSwap
    \/ BeginDeposit
    \/ BeginWithdraw
    \/ BeginClaim
    \/ RunStep

StepSpec == InitStep /\ [][NextStep]_vars

Requested(kinds) == \E i \in 1..Len(last.done) : last.done[i].kind \in kinds
Pending(kinds) == \E i \in 1..Len(last.pending) : last.pending[i].kind \in kinds

\* the step taken is the request of a token transfer, mint or burn
RequestsTokenMovement ==
    /\ ops' = ops
    /\ Len(last'.done) = Len(last.done) + 1
    /\ last'.done[Len(last'.done)].kind \in TokenMovements

\* C20: in initialize, swap, deposit, withdraw and claim, a token transfer,
\* mint or burn is requested only when the checks have passed and every record
\* the handler modifies is packed; a handler that failed a check requests no
\* token movement.
C20_PersistBeforeInvoke ==
    [][/\ RequestsTokenMovement =>
            /\ last.status = "Ok"
            /\ ~Pending({"pack"})
            /\ swap = last.target.swap
            /\ provider = last.target.provider
            /\ swap' = swap
            /\ provider' = provider
       /\ (ops' = ops + 1 /\ last'.status \notin {"Ok", "TokenInsufficientFunds"}) =>
            /\ last'.done = <<>>
            /\ last'.pending = <<>>
            /\ balances' = balances
            /\ pool_mint_supply' = pool_mint_supply]_vars

\* a deposit has packed both records and moved the user's tokens, with the
\* mint of the shares still to come
C20_Witness ==
    /\ last.op = "deposit"
    /\ last.status = "Ok"
    /\ Requested({"token_transfer"})
    /\ Pending({"token_mint_to"})
    /\ swap = last.target.swap
    /\ provider = last.target.provider
    /\ provider # EmptyProvider

----------------------------------------------------------------------------
(* Pools initialized at the largest prices the Initialize instruction takes. *)

\* mid_price arguments: u128::MAX, and 10^29 and 10^20 as scaled values
ExtremePrices ==
    {BSub(Pow128, <<1>>),
     <<0, 0, 0, 0, 0, 0, 0, 0, 0, 0, 0, 0, 100>>,
     <<0, 0, 0, 0, 0, 0, 0, 0, 0, 100>>}

ExtremeInitializeInputs ==
    {[slope |-> 500000000, mid_price |-> p, is_open_twap |-> t, oracle |-> "unknown"] :
        p \in ExtremePrices, t \in BOOLEAN}

\* process_initialize with an extreme mid_price
ExtremeInitialize ==
    /\ ops < MaxOps
    /\ \E input \in ExtremeInitializeInputs :
       \E r \in {process_initialize(input.slope, input.mid_price, input.is_open_twap,
                                    Oracle(input.oracle, clock))} :
            /\ swap' = r.swap
            /\ pool_mint_supply' = pool_mint_supply + r.mint_amount
            /\ ops' = ops + 1
            /\ last' = IF r.status = "Ok"
                       THEN [op |-> "initialize", status |-> r.status,
                             was_paused |-> swap.is_paused, input |-> input,
                             mint_amount |-> r.mint_amount]
                       ELSE [op |-> "initialize", status |-> r.status,
                             was_paused |-> swap.is_paused]
            /\ UNCHANGED <<config, balances, provider, clock>>

ExtremeMaxTime == 4

\* the Clock sysvar advances
ExtremeTick ==
    /\ clock.unix_timestamp < ExtremeMaxTime
    /\ clock' = [unix_timestamp |-> clock.unix_timestamp + 1, slot |-> clock.slot + 1]
    /\ UNCHANGED <<accounts, ops, last>>

NextExtreme ==
    \/ ExtremeTick
    \/ AdminInitialize
    \/ InitLiquidityProvider
    \/ ExtremeInitialize
    \/ Swap
    \/ Deposit
    \/ Withdraw

ExtremeSpec == Init /\ [][NextExtreme]_vars

\* C21: an arithmetic overflow, underflow or division by zero, the conversion of
\* a decimal to its 128-bit stored form included, is reported as an error: no
\* instruction aborts.
C21_NoAbort ==
    last.status # "Panic"

----------------------------------------------------------------------------
(* get_target_reserve over reserves, inflows, prices and slopes.            *)

\* current_reserve, from nothing and one scaled unit up to 10^12
TargetReserves ==
    {zero, <<1>>, one, from_u64(100), <<0, 0, 500, 0, 1>>, from_u64(1000000),
     <<0, 0, 0, 0, 0, 0, 0, 1>>}

\* quote_amount, the one-sided inflow
TargetInflows ==
    {<<1>>, one, from_u64(50), from_u64(1000), <<0, 0, 0, 0, 0, 0, 1>>,
     <<0, 0, 0, 0, 0, 0, 0, 0, 1>>}

TargetPrices == {<<1>>, HALF_WAD, one, from_u64(100), from_u64(1000000)}

TargetSlopes == {<<1>>, from_scaled_val(100000000), HALF_WAD, one}

InitTarget ==
    /\ config = EmptyConfig
    /\ swap = EmptySwap
    /\ balances \in InitialBalances
    /\ pool_mint_supply = 0
    /\ provider = EmptyProvider
    /\ clock = [unix_timestamp |-> 1, slot |-> 10]
    /\ ops = 0
    /\ last = NoInstruction

\* one call of get_target_reserve
GetTargetReserve ==
    /\ ops = 0
    /\ ops' = 1
    /\ \E current_reserve \in TargetReserves, quote_amount \in TargetInflows,
          market_price \in TargetPrices, slope \in TargetSlopes :
       \E result \in {get_target_reserve(current_reserve, quote_amount, market_price,
                                         slope)} :
            last' = [op |-> "get_target_reserve", status |-> "Ok", was_paused |-> FALSE,
                     current_reserve |-> current_reserve, quote_amount |-> quote_amount,
                     market_price |-> market_price, slope |-> slope, result |-> result]
    /\ UNCHANGED <<config, swap, balances, pool_mint_supply, provider, clock>>

NextTarget == GetTargetReserve

TargetSpec == InitTarget /\ [][NextTarget]_vars

\* C22: for R > 0, Q > 0, p > 0 and 0 < k <= 1 a successful
\* get_target_reserve(R, Q, p, k) is at least R, and for R = 0 it is 0.
C22_TargetAtLeastReserve ==
    last.op = "get_target_reserve" =>
        /\ is_zero(last.current_reserve) => last.result = zero
        /\ (~is_zero(last.current_reserve) /\ ~IsErr(last.result)) =>
                BCmp(last.result, last.current_reserve) >= 0

\* an inflow raised the target above a non-zero reserve
C22_Witness ==
    /\ last.op = "get_target_reserve"
    /\ ~is_zero(last.current_reserve)
    /\ ~IsErr(last.result)
    /\ BCmp(last.result, last.current_reserve) > 0

----------------------------------------------------------------------------
(* state/*.rs and curve/pool.rs: Pack of the persisted records.  Account   *)
(* data is a sequence of bytes; every field is written at its offset in   *)
(* little-endian order and read back from the same offset.                 *)

\* input[offset .. offset + len), offsets counted from 0 as in array_refs!
Slice(input, offset, len) == SubSeq(input, offset + 1, offset + len)

Zeroed(len) == [i \in 1..len |-> 0]

\* u64::to_le_bytes and its like: len bytes of a non-negative integer
RECURSIVE to_le_bytes(_, _)
to_le_bytes(n, len) ==
    IF len = 0 THEN <<>> ELSE <<n % 256>> \o to_le_bytes(n \div 256, len - 1)

RECURSIVE FromLeFrom(_, _)
FromLeFrom(src, i) ==
    IF i > Len(src) THEN 0 ELSE src[i] + 256 * FromLeFrom(src, i + 1)

\* u64::from_le_bytes
from_le_bytes(src) == FromLeFrom(src, 1)

\* i64::to_le_bytes: two's complement
i64_to_le_bytes(n) ==
    IF n >= 0 THEN to_le_bytes(n, 8)
    ELSE [i \in 1..8 |-> 255 - to_le_bytes(-n - 1, 8)[i]]

\* i64::from_le_bytes
i64_from_le_bytes(src) ==
    IF src[8] >= 128 THEN -from_le_bytes([i \in 1..8 |-> 255 - src[i]]) - 1
    ELSE from_le_bytes(src)

RECURSIVE ShortRemFrom(_, _, _, _)
ShortRemFrom(a, m, i, r) ==
    IF i = 0 THEN r ELSE ShortRemFrom(a, m, i - 1, (r * Base + a[i]) % m)

\* u128::to_le_bytes of a big integer
RECURSIVE u128_to_le_bytes(_, _)
u128_to_le_bytes(a, len) ==
    IF len = 0 THEN <<>>
    ELSE <<ShortRemFrom(a, 256, Len(a), 0)>>
         \o u128_to_le_bytes(Norm(ShortDivFrom(a, 256, Len(a), 0)), len - 1)

RECURSIVE U128FromLeFrom(_, _)
U128FromLeFrom(src, i) ==
    IF i > Len(src) THEN <<>>
    ELSE BAdd(IntToBig(src[i]), BMulSmall(U128FromLeFrom(src, i + 1), 256))

\* u128::from_le_bytes
u128_from_le_bytes(src) == U128FromLeFrom(src, 1)

RECURSIVE U128FromBeFrom(_, _)
U128FromBeFrom(src, i) ==
    IF i = 0 THEN <<>>
    ELSE BAdd(IntToBig(src[i]), BMulSmall(U128FromBeFrom(src, i - 1), 256))

\* pack_decimal, for a decimal whose scaled value fits a u128
pack_decimal(decimal) == u128_to_le_bytes(decimal, 16)

\* a faulty unpack_decimal: the bytes are read most significant first
unpack_decimal_big_endian(src) == U128FromBeFrom(src, Len(src))

\* unpack_decimal
unpack_decimal(src) == u128_from_le_bytes(src)

pack_bool(boolean) == <<IF boolean THEN 1 ELSE 0>>

\* unpack_bool: Ok(boolean) as [ok |-> boolean], or the failure
unpack_bool(src) ==
    IF src[1] = 0 THEN [ok |-> FALSE]
    ELSE IF src[1] = 1 THEN [ok |-> TRUE]
    ELSE Fail("InvalidAccountData")

\* the keys of the model, in the order of their key bytes; Pubkey::default()
\* is "none"
Pubkeys ==
    <<"admin", "user", "admin_2", "token_a", "token_b", "pool_mint", "token_a_mint",
      "token_b_mint", "admin_fee_a", "admin_fee_b", "deltafi_mint", POOL, "pool_11">>
    \o HeldPools

PUBKEY_BYTES == 32

\* Pubkey::as_ref
Pubkey_as_ref(key) ==
    IF key = "none" THEN Zeroed(PUBKEY_BYTES)
    ELSE [i \in 1..PUBKEY_BYTES |->
            (CHOOSE n \in 1..Len(Pubkeys) : Pubkeys[n] = key) + (i % 2)]

\* Pubkey::new, Pubkey::new_from_array
Pubkey_new(src) ==
    IF src = Zeroed(PUBKEY_BYTES) THEN "none"
    ELSE CHOOSE key \in {Pubkeys[n] : n \in 1..Len(Pubkeys)} : Pubkey_as_ref(key) = src

\* Multiplier as u8
Multiplier_as_u8(multiplier) ==
    CASE multiplier = "One" -> 0
      [] multiplier = "AboveOne" -> 1
      [] multiplier = "BelowOne" -> 2

\* Multiplier::try_from
Multiplier_try_from(multiplier) ==
    CASE multiplier = 0 -> "One"
      [] multiplier = 1 -> "AboveOne"
      [] multiplier = 2 -> "BelowOne"
      [] OTHER -> "InvalidAccountData"

POOL_STATE_SIZE == 97
FEES_SIZE == 64
REWARDS_SIZE == 40
CONFIG_INFO_SIZE == 170
SWAP_INFO_SIZE == 461
LIQUIDITY_POSITION_SIZE == 80
LIQUIDITY_PROVIDER_SIZE == 834
PROGRAM_VERSION == 1

PoolState_pack_into_slice(self) ==
    pack_decimal(self.market_price) \o pack_decimal(self.slope)
    \o pack_decimal(self.base_reserve) \o pack_decimal(self.quote_reserve)
    \o pack_decimal(self.base_target) \o pack_decimal(self.quote_target)
    \o <<Multiplier_as_u8(self.multiplier)>>

PoolState_unpack_from_slice(input) ==
    IF Multiplier_try_from(input[97]) = "InvalidAccountData"
    THEN Fail("InvalidAccountData")
    ELSE [market_price |-> unpack_decimal(Slice(input, 0, 16)),
          slope |-> unpack_decimal(Slice(input, 16, 16)),
          base_reserve |-> unpack_decimal(Slice(input, 32, 16)),
          quote_reserve |-> unpack_decimal(Slice(input, 48, 16)),
          base_target |-> unpack_decimal(Slice(input, 64, 16)),
          quote_target |-> unpack_decimal(Slice(input, 80, 16)),
          multiplier |-> Multiplier_try_from(input[97])]

Fees_pack_into_slice(self) ==
    to_le_bytes(self.admin_trade_fee_numerator, 8)
    \o to_le_bytes(self.admin_trade_fee_denominator, 8)
    \o to_le_bytes(self.admin_withdraw_fee_numerator, 8)
    \o to_le_bytes(self.admin_withdraw_fee_denominator, 8)
    \o to_le_bytes(self.trade_fee_numerator, 8)
    \o to_le_bytes(self.trade_fee_denominator, 8)
    \o to_le_bytes(self.withdraw_fee_numerator, 8)
    \o to_le_bytes(self.withdraw_fee_denominator, 8)

Fees_unpack_from_slice(input) ==
    [admin_trade_fee_numerator |-> from_le_bytes(Slice(input, 0, 8)),
     admin_trade_fee_denominator |-> from_le_bytes(Slice(input, 8, 8)),
     admin_withdraw_fee_numerator |-> from_le_bytes(Slice(input, 16, 8)),
     admin_withdraw_fee_denominator |-> from_le_bytes(Slice(input, 24, 8)),
     trade_fee_numerator |-> from_le_bytes(Slice(input, 32, 8)),
     trade_fee_denominator |-> from_le_bytes(Slice(input, 40, 8)),
     withdraw_fee_numerator |-> from_le_bytes(Slice(input, 48, 8)),
     withdraw_fee_denominator |-> from_le_bytes(Slice(input, 56, 8))]

Rewards_pack_into_slice(self) ==
    to_le_bytes(self.trade_reward_numerator, 8)
    \o to_le_bytes(self.trade_reward_denominator, 8)
    \o to_le_bytes(self.trade_reward_cap, 8)
    \o to_le_bytes(self.liquidity_reward_numerator, 8)
    \o to_le_bytes(self.liquidity_reward_denominator, 8)

Rewards_unpack_from_slice(input) ==
    [trade_reward_numerator |-> from_le_bytes(Slice(input, 0, 8)),
     trade_reward_denominator |-> from_le_bytes(Slice(input, 8, 8)),
     trade_reward_cap |-> from_le_bytes(Slice(input, 16, 8)),
     liquidity_reward_numerator |-> from_le_bytes(Slice(input, 24, 8)),
     liquidity_reward_denominator |-> from_le_bytes(Slice(input, 32, 8))]

\* ConfigInfo as the source declares it: version, bump_seed, admin_key,
\* deltafi_mint, fees, rewards
ConfigInfo_pack_into_slice(self) ==
    to_le_bytes(self.version, 1) \o to_le_bytes(self.bump_seed, 1)
    \o Pubkey_as_ref(self.admin_key) \o Pubkey_as_ref(self.deltafi_mint)
    \o Fees_pack_into_slice(self.fees) \o Rewards_pack_into_slice(self.rewards)

ConfigInfo_unpack_from_slice(src) ==
    IF from_le_bytes(Slice(src, 0, 1)) > PROGRAM_VERSION
    THEN Fail("InvalidAccountData")
    ELSE [version |-> from_le_bytes(Slice(src, 0, 1)),
          bump_seed |-> from_le_bytes(Slice(src, 1, 1)),
          admin_key |-> Pubkey_new(Slice(src, 2, 32)),
          deltafi_mint |-> Pubkey_new(Slice(src, 34, 32)),
          fees |-> Fees_unpack_from_slice(Slice(src, 66, FEES_SIZE)),
          rewards |-> Rewards_unpack_from_slice(Slice(src, 130, REWARDS_SIZE))]

\* SwapInfo as the source declares it
SwapInfo_pack_into_slice(self) ==
    pack_bool(self.is_initialized) \o pack_bool(self.is_paused)
    \o to_le_bytes(self.nonce, 1)
    \o Pubkey_as_ref(self.token_a) \o Pubkey_as_ref(self.token_b)
    \o Pubkey_as_ref(self.pool_mint)
    \o Pubkey_as_ref(self.token_a_mint) \o Pubkey_as_ref(self.token_b_mint)
    \o Pubkey_as_ref(self.admin_fee_key_a) \o Pubkey_as_ref(self.admin_fee_key_b)
    \o Fees_pack_into_slice(self.fees) \o Rewards_pack_into_slice(self.rewards)
    \o PoolState_pack_into_slice(self.pool_state)
    \o pack_bool(self.is_open_twap)
    \o to_le_bytes(self.block_timestamp_last, 8)
    \o to_le_bytes(self.cumulative_ticks, 8)
    \o pack_decimal(self.base_price_cumulative_last)

SwapInfo_unpack_from_slice(input) ==
    LET is_initialized == unpack_bool(Slice(input, 0, 1))
        is_paused == unpack_bool(Slice(input, 1, 1))
        pool_state == PoolState_unpack_from_slice(Slice(input, 331, POOL_STATE_SIZE))
        is_open_twap == unpack_bool(Slice(input, 428, 1))
    IN  IF \/ Failed(is_initialized)
           \/ Failed(is_paused)
           \/ Failed(pool_state)
           \/ Failed(is_open_twap)
        THEN Fail("InvalidAccountData")
        ELSE [is_initialized |-> is_initialized.ok,
              is_paused |-> is_paused.ok,
              nonce |-> from_le_bytes(Slice(input, 2, 1)),
              token_a |-> Pubkey_new(Slice(input, 3, 32)),
              token_b |-> Pubkey_new(Slice(input, 35, 32)),
              pool_mint |-> Pubkey_new(Slice(input, 67, 32)),
              token_a_mint |-> Pubkey_new(Slice(input, 99, 32)),
              token_b_mint |-> Pubkey_new(Slice(input, 131, 32)),
              admin_fee_key_a |-> Pubkey_new(Slice(input, 163, 32)),
              admin_fee_key_b |-> Pubkey_new(Slice(input, 195, 32)),
              fees |-> Fees_unpack_from_slice(Slice(input, 227, FEES_SIZE)),
              rewards |-> Rewards_unpack_from_slice(Slice(input, 291, REWARDS_SIZE)),
              pool_state |-> pool_state,
              is_open_twap |-> is_open_twap.ok,
              block_timestamp_last |-> from_le_bytes(Slice(input, 429, 8)),
              cumulative_ticks |-> from_le_bytes(Slice(input, 437, 8)),
              base_price_cumulative_last |-> unpack_decimal(Slice(input, 445, 16))]

LiquidityPosition_pack(position) ==
    Pubkey_as_ref(position.pool)
    \o to_le_bytes(position.liquidity_amount, 8)
    \o to_le_bytes(position.rewards_owed, 8)
    \o to_le_bytes(position.rewards_estimated, 8)
    \o to_le_bytes(position.cumulative_interest, 8)
    \o i64_to_le_bytes(position.last_update_ts)
    \o i64_to_le_bytes(position.next_claim_ts)

LiquidityPosition_unpack(positions_flat) ==
    [pool |-> Pubkey_new(Slice(positions_flat, 0, 32)),
     liquidity_amount |-> from_le_bytes(Slice(positions_flat, 32, 8)),
     rewards_owed |-> from_le_bytes(Slice(positions_flat, 40, 8)),
     rewards_estimated |-> from_le_bytes(Slice(positions_flat, 48, 8)),
     cumulative_interest |-> from_le_bytes(Slice(positions_flat, 56, 8)),
     last_update_ts |-> i64_from_le_bytes(Slice(positions_flat, 64, 8)),
     next_claim_ts |-> i64_from_le_bytes(Slice(positions_flat, 72, 8))]

RECURSIVE PositionsFlat(_, _)
PositionsFlat(positions, i) ==
    IF i > Len(positions) THEN <<>>
    ELSE LiquidityPosition_pack(positions[i]) \o PositionsFlat(positions, i + 1)

\* LiquidityProvider::pack_into_slice writes the header and the positions it
\* holds into the account data `output`; the bytes after them keep their value
LiquidityProvider_pack_into_slice(self, output) ==
    pack_bool(self.is_initialized) \o Pubkey_as_ref(self.owner)
    \o to_le_bytes(Len(self.positions), 1)
    \o PositionsFlat(self.positions, 1)
    \o SubSeq(output, 34 + LIQUIDITY_POSITION_SIZE * Len(self.positions) + 1,
              LIQUIDITY_PROVIDER_SIZE)

LiquidityProvider_unpack_from_slice(input) ==
    LET is_initialized == unpack_bool(Slice(input, 0, 1))
        positions_len == from_le_bytes(Slice(input, 33, 1))
    IN  IF Failed(is_initialized) THEN is_initialized
        ELSE [is_initialized |-> is_initialized.ok,
              owner |-> Pubkey_new(Slice(input, 1, 32)),
              positions |->
                  [i \in 1..positions_len |->
                      LiquidityPosition_unpack(
                          Slice(input, 34 + LIQUIDITY_POSITION_SIZE * (i - 1),
                                LIQUIDITY_POSITION_SIZE))]]

----------------------------------------------------------------------------
(* Records handed to pack, and the round trip through the account data.    *)

PackDecimals == {zero, <<1>>, HALF_WAD, one, <<789, 456, 123, 5>>, BSub(Pow128, <<1>>)}

PackPoolStates ==
    {[market_price |-> p, slope |-> HALF_WAD, base_target |-> t,
      quote_target |-> from_u64(1000), base_reserve |-> r,
      quote_reserve |-> <<1>>, multiplier |-> m] :
        p \in {one, BSub(Pow128, <<1>>)}, t \in {zero, <<789, 456, 123, 5>>},
        r \in PackDecimals \cup {Pow128}, m \in Multipliers}

PackFees == NewFees \cup {NoFees}

PackRewards == NewRewards \cup {NoRewards}

PackConfigs ==
    {[version |-> v, bump_seed |-> b, admin_key |-> k, deltafi_mint |-> "deltafi_mint",
      fees |-> f, rewards |-> DEFAULT_TEST_REWARDS] :
        v \in {0, PROGRAM_VERSION}, b \in {0, 255}, k \in {"none", "admin", "admin_2"},
        f \in PackFees}

PackSwaps ==
    {[is_initialized |-> TRUE, is_paused |-> paused, nonce |-> 255,
      token_a |-> "token_a", token_b |-> "token_b", pool_mint |-> "pool_mint",
      token_a_mint |-> "token_a_mint", token_b_mint |-> "token_b_mint",
      admin_fee_key_a |-> "admin_fee_a", admin_fee_key_b |-> "admin_fee_b",
      fees |-> DEFAULT_TEST_FEES, rewards |-> DEFAULT_TEST_REWARDS,
      pool_state |-> [market_price |-> one, slope |-> HALF_WAD,
                      base_target |-> from_u64(1000), quote_target |-> from_u64(1000),
                      base_reserve |-> from_u64(900), quote_reserve |-> from_u64(1100),
                      multiplier |-> "AboveOne"],
      is_open_twap |-> twap, block_timestamp_last |-> ts, cumulative_ticks |-> ts,
      base_price_cumulative_last |-> c] :
        paused \in BOOLEAN, twap \in BOOLEAN, ts \in {0, 1, MIN_CLAIM_PERIOD},
        c \in {zero, one, BSub(Pow128, <<1>>), Pow128}}

\* a provider holding n positions
PackProvider(n, amount, ts) ==
    [is_initialized |-> TRUE, owner |-> "user",
     positions |-> [i \in 1..n |->
                      [pool |-> (HeldPools \o <<POOL>>)[i], liquidity_amount |-> amount * i,
                       rewards_owed |-> i - 1, rewards_estimated |-> amount,
                       cumulative_interest |-> i, last_update_ts |-> ts,
                       next_claim_ts |-> ts + MIN_CLAIM_PERIOD]]]

PackProviders ==
    {EmptyProvider}
    \cup {PackProvider(n, amount, ts) :
            n \in 0..MAX_LIQUIDITY_POSITIONS, amount \in {0, 1000000},
            ts \in {-MIN_CLAIM_PERIOD - 1, 1}}

\* the account data before the pack: zeroed, or left by a full provider
ProviderAccountData ==
    {Zeroed(LIQUIDITY_PROVIDER_SIZE),
     LiquidityProvider_pack_into_slice(PackProvider(MAX_LIQUIDITY_POSITIONS, 77, 5),
                                       Zeroed(LIQUIDITY_PROVIDER_SIZE))}

InitPack ==
    /\ config = EmptyConfig
    /\ swap = EmptySwap
    /\ balances \in InitialBalances
    /\ pool_mint_supply = 0
    /\ provider = EmptyProvider
    /\ clock = [unix_timestamp |-> 1, slot |-> 10]
    /\ ops = 0
    /\ last = NoInstruction

\* the record read back from the account data a pack has written
RoundTrip(op, value, unpacked) ==
    /\ ops = 0
    /\ ops' = 1
    /\ last' = [op |-> op, status |-> "Ok", was_paused |-> FALSE,
                value |-> value, unpacked |-> unpacked]
    /\ UNCHANGED <<accounts, clock>>

\* pack_decimal aborts the program
PackPanic(op, value) ==
    /\ ops = 0
    /\ ops' = 1
    /\ last' = [op |-> op, status |-> "Panic", was_paused |-> FALSE,
                value |-> value, unpacked |-> value]
    /\ UNCHANGED <<accounts, clock>>

PackPoolState ==
    \E x \in PackPoolStates :
        IF PoolStatePackable(x)
        THEN RoundTrip("pack_pool_state", x,
                       PoolState_unpack_from_slice(PoolState_pack_into_slice(x)))
        ELSE PackPanic("pack_pool_state", x)

PackFeesRecord ==
    \E x \in PackFees :
        RoundTrip("pack_fees", x, Fees_unpack_from_slice(Fees_pack_into_slice(x)))

PackRewardsRecord ==
    \E x \in PackRewards :
        RoundTrip("pack_rewards", x,
                  Rewards_unpack_from_slice(Rewards_pack_into_slice(x)))

PackConfigInfo ==
    \E x \in PackConfigs :
        RoundTrip("pack_config_info", x,
                  ConfigInfo_unpack_from_slice(ConfigInfo_pack_into_slice(x)))

PackSwapInfo ==
    \E x \in PackSwaps :
        IF SwapInfoPackable(x)
        THEN RoundTrip("pack_swap_info", x,
                       SwapInfo_unpack_from_slice(SwapInfo_pack_into_slice(x)))
        ELSE PackPanic("pack_swap_info", x)

PackLiquidityProvider ==
    \E x \in PackProviders, output \in ProviderAccountData :
        RoundTrip("pack_liquidity_provider", x,
                  LiquidityProvider_unpack_from_slice(
                      LiquidityProvider_pack_into_slice(x, output)))

NextPack ==
    \/ PackPoolState
    \/ PackFeesRecord
    \/ PackRewardsRecord
    \/ PackConfigInfo
    \/ PackSwapInfo
    \/ PackLiquidityProvider

PackSpec == InitPack /\ [][NextPack]_vars

PackOps ==
    {"pack_pool_state", "pack_fees", "pack_rewards", "pack_config_info",
     "pack_swap_info", "pack_liquidity_provider"}

\* C23: every persisted record (PoolState, Fees, Rewards, ConfigInfo,
\* SwapInfo, LiquidityProvider with 0 to 10 positions) that pack writes is
\* read back unchanged: unpack(pack(x)) = x.
C23_PackRoundTrip ==
    (last.op \in PackOps /\ last.status = "Ok") => last.unpacked = last.value

\* a provider with ten positions was written over the data of another one
\* and read back
C23_Witness ==
    /\ last.op = "pack_liquidity_provider"
    /\ last.status = "Ok"
    /\ Len(last.value.positions) = MAX_LIQUIDITY_POSITIONS
    /\ last.value.positions[1].last_update_ts < 0
    /\ last.unpacked = last.value

----------------------------------------------------------------------------
(* The four fee functions of state/fees.rs on amounts of the whole u64     *)
(* range.                                                                  *)

\* 2^62
Pow62 == <<904, 387, 427, 18, 686, 611, 4>>

\* trade, withdraw and fee amounts, up to u64::MAX
FeeAmounts ==
    {zero, <<1>>, <<99>>, <<0, 0, 0, 1>>, <<0, 0, 0, 100>>, <<0, 0, 0, 0, 0, 0, 3>>,
     Pow62, BSub(Pow64, <<1>>)}

\* fee settings: the test fees, a zero rate, zero denominators, a rate of one
\* and a rate above one
FeeSettings ==
    {DEFAULT_TEST_FEES,
     NoFees,
     [DEFAULT_TEST_FEES EXCEPT !.trade_fee_numerator = 0, !.withdraw_fee_numerator = 0,
                               !.admin_trade_fee_numerator = 0,
                               !.admin_withdraw_fee_numerator = 0],
     [DEFAULT_TEST_FEES EXCEPT !.trade_fee_denominator = 6, !.withdraw_fee_denominator = 6,
                               !.admin_trade_fee_denominator = 1,
                               !.admin_withdraw_fee_denominator = 1],
     [DEFAULT_TEST_FEES EXCEPT !.trade_fee_numerator = 1, !.trade_fee_denominator = 1,
                               !.withdraw_fee_numerator = 1, !.withdraw_fee_denominator = 1,
                               !.admin_trade_fee_numerator = 3,
                               !.admin_withdraw_fee_numerator = 3]}

InitFee ==
    /\ config = EmptyConfig
    /\ swap = EmptySwap
    /\ balances \in InitialBalances
    /\ pool_mint_supply = 0
    /\ provider = EmptyProvider
    /\ clock = [unix_timestamp |-> 1, slot |-> 10]
    /\ ops = 0
    /\ last = NoInstruction

\* one call of a fee function: amount * numerator / denominator
FeeCall(op, amount, numerator, denominator) ==
    /\ ops = 0
    /\ ops' = 1
    /\ last' = [op |-> op, status |-> "Ok", was_paused |-> FALSE,
                amount |-> amount, numerator |-> IntToBig(numerator),
                denominator |-> IntToBig(denominator),
                result |-> checked_mul_div(amount, IntToBig(numerator),
                                           IntToBig(denominator))]
    /\ UNCHANGED <<accounts, clock>>

TradeFee ==
    \E fees \in FeeSettings, trade_amount \in FeeAmounts :
        FeeCall("trade_fee", trade_amount, fees.trade_fee_numerator,
                fees.trade_fee_denominator)

WithdrawFee ==
    \E fees \in FeeSettings, withdraw_amount \in FeeAmounts :
        FeeCall("withdraw_fee", withdraw_amount, fees.withdraw_fee_numerator,
                fees.withdraw_fee_denominator)

AdminTradeFee ==
    \E fees \in FeeSettings, fee_amount \in FeeAmounts :
        FeeCall("admin_trade_fee", fee_amount, fees.admin_trade_fee_numerator,
                fees.admin_trade_fee_denominator)

AdminWithdrawFee ==
    \E fees \in FeeSettings, fee_amount \in FeeAmounts :
        FeeCall("admin_withdraw_fee", fee_amount, fees.admin_withdraw_fee_numerator,
                fees.admin_withdraw_fee_denominator)

NextFee == TradeFee \/ WithdrawFee \/ AdminTradeFee \/ AdminWithdrawFee

FeeSpec == InitFee /\ [][NextFee]_vars

FeeOps == {"trade_fee", "withdraw_fee", "admin_trade_fee", "admin_withdraw_fee"}

\* C24: for every 64-bit amount a fee function returns
\* floor(amount * numerator / denominator) when the denominator is not zero,
\* and CalculationFailure when it is zero.
C24_FeeIsFloor ==
    last.op \in FeeOps =>
        IF last.denominator = zero THEN last.result = CalculationFailure
        ELSE last.result = BDiv(BMul(last.amount, last.numerator), last.denominator)

----------------------------------------------------------------------------
(* The provider's position against the pool mint.                          *)

\* liquidity_amount of the provider's position on the pool, 0 without one
LiquidityOf(self, pool) ==
    IF Holds(self, pool) THEN PositionOf(self, pool).liquidity_amount ELSE 0

\* this step is the instruction op and it succeeds
Succeeds(op) == ops' = ops + 1 /\ last'.op = op /\ last'.status = "Ok"

\* C25: the liquidity_amount of the provider's position (0 for a removed
\* position) moves with the LP shares of the provider: a successful deposit
\* adds exactly the minted amount, a successful withdraw subtracts exactly
\* pool_token_amount, which is the amount burned, and nothing else changes it.
C25_PositionTracksShares ==
    [][ /\ Succeeds("deposit") =>
            LiquidityOf(provider', POOL) =
                LiquidityOf(provider, POOL) + (pool_mint_supply' - pool_mint_supply)
        /\ Succeeds("withdraw") =>
            /\ pool_mint_supply' = pool_mint_supply - last'.input.pool_token_amount
            /\ LiquidityOf(provider', POOL) =
                    LiquidityOf(provider, POOL) - last'.input.pool_token_amount
        /\ ~(Succeeds("deposit") \/ Succeeds("withdraw")) =>
            LiquidityOf(provider', POOL) = LiquidityOf(provider, POOL)
      ]_vars

\* a withdrawal followed a deposit and left part of the minted shares in the
\* position
C25_Witness ==
    /\ last.op = "withdraw"
    /\ last.status = "Ok"
    /\ LiquidityOf(provider, POOL) > 0

----------------------------------------------------------------------------
(* buy_shares on pools with an empty reserve, as test_failure builds them. *)

SharePoolStates ==
    {[market_price |-> p, slope |-> k, base_target |-> from_u64(t[1]),
      quote_target |-> from_u64(t[2]), base_reserve |-> from_u64(t[3]),
      quote_reserve |-> from_u64(t[4]), multiplier |-> t[5]] :
        p \in CurvePrices, k \in CurveSlopes,
        t \in {<<0, 0, 0, 0, "One">>,
               <<1000, 100000, 1000, 100000, "One">>,
               <<1000, 100000, 0, 100000, "One">>,
               <<1000, 100000, 1000, 0, "One">>,
               <<1000, 100000, 900, 110000, "AboveOne">>,
               <<1000, 100000, 1100, 250000, "AboveOne">>,
               <<1000, 100000, 2000, 25000, "BelowOne">>}}

InitShare ==
    /\ config = EmptyConfig
    /\ swap \in {[EmptySwap EXCEPT !.is_initialized = TRUE, !.pool_state = s] :
                    s \in SharePoolStates}
    /\ balances \in InitialBalances
    /\ pool_mint_supply = 0
    /\ provider = EmptyProvider
    /\ clock = [unix_timestamp |-> 2, slot |-> 10]
    /\ ops = 0
    /\ last = NoInstruction

NextShare == BuyShares

ShareSpec == InitShare /\ [][NextShare]_vars

\* the refusal named by code, which leaves the PoolState as it was
RefusedUnchanged(code) == last.result = code /\ swap.pool_state = last.self

\* C26: buy_shares fails with CalculationFailure when the base balance is
\* below base_reserve or the quote balance is below quote_reserve (base_input
\* and quote_input are computed by checked subtraction first); otherwise it
\* fails with InsufficientFunds when the base balance equals base_reserve
\* (base_input = 0); otherwise it fails with IncorrectMint when
\* total_supply > 0 and base_reserve or quote_reserve is zero.  In all three
\* cases the PoolState is left unchanged.
C26_BuySharesFailures ==
    last.op = "buy_shares" =>
        IF \/ BCmp(from_u64(last.base_balance), last.self.base_reserve) < 0
           \/ BCmp(from_u64(last.quote_balance), last.self.quote_reserve) < 0
        THEN RefusedUnchanged(ECalculationFailure)
        ELSE IF from_u64(last.base_balance) = last.self.base_reserve
        THEN RefusedUnchanged(EInsufficientFunds)
        ELSE (/\ last.total_supply > 0
              /\ is_zero(last.self.base_reserve) \/ is_zero(last.self.quote_reserve))
                => RefusedUnchanged(EIncorrectMint)

\* C26 as stated: buy_shares fails with InsufficientFunds whenever the base
\* balance equals base_reserve, and with IncorrectMint whenever
\* total_supply > 0 and base_reserve or quote_reserve is zero, leaving the
\* PoolState unchanged in both cases.
C26_BuySharesFailuresAsStated ==
    last.op = "buy_shares" =>
        /\ from_u64(last.base_balance) = last.self.base_reserve
              => RefusedUnchanged(EInsufficientFunds)
        /\ (/\ last.total_supply > 0
            /\ is_zero(last.self.base_reserve) \/ is_zero(last.self.quote_reserve))
              => RefusedUnchanged(EIncorrectMint)

\* shares were asked, with no base token added, of a pool in supply whose base
\* reserve is empty: both cases of the claim apply, and the refusal is
\* InsufficientFunds
C26_Witness ==
    /\ last.op = "buy_shares"
    /\ last.total_supply > 0
    /\ is_zero(last.self.base_reserve)
    /\ from_u64(last.base_balance) = last.self.base_reserve
    /\ BCmp(from_u64(last.quote_balance), last.self.quote_reserve) >= 0
    /\ RefusedUnchanged(EInsufficientFunds)

----------------------------------------------------------------------------
(* adjust_target and get_mid_price on pools as they are stored, those whose  *)
(* multiplier contradicts the reserves included (test_failure).            *)

StoredPoolStates ==
    {[market_price |-> p, slope |-> k, base_target |-> from_u64(t[1]),
      quote_target |-> from_u64(t[2]), base_reserve |-> from_u64(t[3]),
      quote_reserve |-> from_u64(t[4]), multiplier |-> m] :
        p \in CurvePrices, k \in CurveSlopes, m \in Multipliers,
        t \in {<<1000, 100000, 1000, 100000>>,
               <<1000, 100000, 900, 110000>>,
               <<1000, 100000, 1100, 90000>>,
               <<200000, 200000, 100000, 100000>>,
               <<1000, 100000, 999, 100000>>,
               <<1000, 100000, 1000, 99999>>}}

InitAdjust ==
    /\ config = EmptyConfig
    /\ swap \in {[EmptySwap EXCEPT !.is_initialized = TRUE, !.pool_state = s] :
                    s \in StoredPoolStates}
    /\ balances \in InitialBalances
    /\ pool_mint_supply = 0
    /\ provider = EmptyProvider
    /\ clock = [unix_timestamp |-> 2, slot |-> 10]
    /\ ops = 0
    /\ last = NoInstruction

\* pool_state.adjust_target(): self is written when the call succeeds
AdjustTarget ==
    /\ ops = 0
    /\ ops' = 1
    /\ \E r \in {adjust_target(swap.pool_state)} :
        /\ swap' = [swap EXCEPT !.pool_state = IF Failed(r) THEN @ ELSE r]
        /\ last' = [op |-> "adjust_target", status |-> "Ok", was_paused |-> FALSE,
                    self |-> swap.pool_state, failed |-> Failed(r)]
    /\ UNCHANGED <<config, balances, pool_mint_supply, provider, clock>>

\* pool_state.get_mid_price()
GetMidPrice ==
    /\ ops = 0
    /\ ops' = 1
    /\ \E r \in {get_mid_price(swap.pool_state)} :
        /\ swap' = [swap EXCEPT !.pool_state = r.state]
        /\ last' = [op |-> "get_mid_price", status |-> "Ok", was_paused |-> FALSE,
                    self |-> swap.pool_state, failed |-> IsErr(r.price)]
    /\ UNCHANGED <<config, balances, pool_mint_supply, provider, clock>>

NextAdjust == AdjustTarget \/ GetMidPrice

AdjustSpec == InitAdjust /\ [][NextAdjust]_vars

\* the multiplier contradicts the reserves
Contradicts(self) ==
    \/ self.multiplier = "BelowOne" /\ BCmp(self.base_reserve, self.base_target) < 0
    \/ self.multiplier = "AboveOne" /\ BCmp(self.quote_reserve, self.quote_target) < 0

\* C27: adjust_target and get_mid_price fail on a pool that is BelowOne with
\* base_reserve < base_target or AboveOne with quote_reserve < quote_target,
\* and leave the state as it was; adjust_target succeeds without changing
\* anything when multiplier = One.
C27_ContradictionRefused ==
    last.op \in {"adjust_target", "get_mid_price"} =>
        /\ Contradicts(last.self) => (last.failed /\ swap.pool_state = last.self)
        /\ (last.op = "adjust_target" /\ last.self.multiplier = "One") =>
                (~last.failed /\ swap.pool_state = last.self)

\* get_mid_price was refused on a pool marked AboveOne whose quote reserve is
\* one unit below its target
C27_Witness ==
    /\ last.op = "get_mid_price"
    /\ last.self.multiplier = "AboveOne"
    /\ last.self.quote_reserve = from_u64(99999)
    /\ last.failed
    /\ swap.pool_state = last.self

----------------------------------------------------------------------------
(* get_pyth_price on price accounts of either type, around the staleness   *)
(* bound, the zero price and the confidence bound.                         *)

PythRecords ==
    {[loaded |-> l, ptype |-> ptype, valid_slot |-> valid_slot, price |-> price,
      conf |-> conf, expo |-> expo] :
        l \in {TRUE}, ptype \in {"Price", "Unknown"}, valid_slot \in 4..11,
        price \in {-1, 0, 1, 99, 100, 101, 12000}, conf \in {0, 1},
        expo \in {-2, 0, 1}}
    \cup {PythMalformed}

InitPyth ==
    /\ config = EmptyConfig
    /\ swap = EmptySwap
    /\ balances \in InitialBalances
    /\ pool_mint_supply = 0
    /\ provider = EmptyProvider
    /\ clock = [unix_timestamp |-> 1, slot |-> 10]
    /\ ops = 0
    /\ last = NoInstruction

\* one call of get_pyth_price on a price account
GetPythPrice ==
    /\ ops = 0
    /\ ops' = 1
    /\ \E pyth_price \in PythRecords :
        last' = [op |-> "get_pyth_price", status |-> "Ok", was_paused |-> FALSE,
                 pyth_price |-> pyth_price, result |-> get_pyth_price(pyth_price, clock)]
    /\ UNCHANGED <<accounts, clock>>

NextPyth == GetPythPrice

PythSpec == InitPyth /\ [][NextPyth]_vars

\* C28: get_pyth_price returns a price only for a record of type Price with
\* current_slot - valid_slot < 5, price > 0 and not (conf > 0 and
\* price < conf * 100); every other record yields an error.
C28_PriceOnlyFromSoundRecord ==
    (last.op = "get_pyth_price" /\ ~IsErr(last.result)) =>
        /\ last.pyth_price.loaded
        /\ last.pyth_price.ptype = "Price"
        /\ clock.slot - last.pyth_price.valid_slot < STALE_AFTER_SLOTS_ELAPSED
        /\ last.pyth_price.price > 0
        /\ ~(last.pyth_price.conf > 0
             /\ last.pyth_price.price < last.pyth_price.conf * 100)

----------------------------------------------------------------------------
(* What a sale can take out of the recorded reserves.                      *)

\* amounts a trader may sell
SellAmounts == {1, 10, 100, 1000, 10000, 100000, 1000000}

\* the sale succeeded and pays more than the reserve
PaysBeyond(sold, reserve) == ~Failed(sold) /\ BCmp(from_u64(sold.amount), reserve) > 0

\* the state process_swap sells on: PoolState::new of the recorded state
OverdrawnBy(state, amount_in) ==
    /\ ~Failed(state)
    /\ \/ PaysBeyond(sell_base_token(state, amount_in), state.quote_reserve)
       \/ PaysBeyond(sell_quote_token(state, amount_in), state.base_reserve)

\* C29: on every pool state reached from initialize through swaps, deposits
\* and withdraws, and for every amount_in, a successful sell_base_token
\* returns at most the recorded quote_reserve and a successful
\* sell_quote_token at most the recorded base_reserve.
C29_SaleWithinReserve ==
    swap.is_initialized =>
        \A amount_in \in SellAmounts :
            ~OverdrawnBy(PoolState_new(swap.pool_state), amount_in)

\* a swap has run, and on the state it left a large sale succeeds and is
\* paid from the quote reserve without exhausting it
C29_Witness ==
    /\ swap.is_initialized
    /\ last.op = "swap"
    /\ last.status = "Ok"
    /\ LET state == PoolState_new(swap.pool_state)
           Paid(sold) == /\ ~Failed(sold)
                         /\ sold.amount > 0
                         /\ BCmp(from_u64(sold.amount), state.quote_reserve) <= 0
       IN  ~Failed(state) /\ Paid(sell_base_token(state, 1000000))

----------------------------------------------------------------------------
(* A trader sells to the pool and at once sells the proceeds back.         *)

\* fees that charge nothing
ZeroFees ==
    [DEFAULT_TEST_FEES EXCEPT !.admin_trade_fee_numerator = 0,
                              !.admin_withdraw_fee_numerator = 0,
                              !.trade_fee_numerator = 0,
                              !.withdraw_fee_numerator = 0]

\* amounts the custody accounts hold before the pool is initialized
RoundTripBalances ==
    {[token_a |-> 1000, token_b |-> 100000, admin_fee_a |-> 0, admin_fee_b |-> 0,
      fee_a_2 |-> 0, fee_b_2 |-> 0],
     [token_a |-> 777, token_b |-> 100000, admin_fee_a |-> 0, admin_fee_b |-> 0,
      fee_a_2 |-> 0, fee_b_2 |-> 0]}

\* slopes of the pool, scaled by WAD: 0, 0.5 and 1
RoundTripSlopes == {0, 500000000, 1000000000}

\* prices of the base token the oracle reports throughout
RoundTripPrices == {100, 120}

\* a fresh pyth pair reporting price
SteadyOracle(price) == <<PythPrice(price, 0, clock.slot), PythPrice(1, 0, clock.slot)>>

\* what the trader sells
RoundTripSwaps ==
    {[swap_direction |-> "SellBase", amount_in |-> x] : x \in {1, 100, 500}}
        \cup {[swap_direction |-> "SellQuote", amount_in |-> x] :
                  x \in {100, 10000, 50000}}

Opposite(swap_direction) == IF swap_direction = "SellBase" THEN "SellQuote" ELSE "SellBase"

InitRoundTrip ==
    /\ config = EmptyConfig
    /\ swap = EmptySwap
    /\ balances \in RoundTripBalances
    /\ pool_mint_supply = 0
    /\ provider = EmptyProvider
    /\ clock = [unix_timestamp |-> 1, slot |-> 10]
    /\ ops = 0
    /\ last = NoInstruction

\* admin.rs initialize with fees that charge nothing
ConfigureZeroFees ==
    /\ ops = 0
    /\ config' = initialize([key |-> "admin", is_signer |-> TRUE],
                            ZeroFees, DEFAULT_TEST_REWARDS).config
    /\ ops' = 1
    /\ last' = [op |-> "configure", status |-> "Ok", was_paused |-> FALSE]
    /\ UNCHANGED <<swap, balances, pool_mint_supply, provider, clock>>

\* process_initialize at the price the oracle reports
InitializeSteady ==
    /\ ops = 1
    /\ \E slope \in RoundTripSlopes, price \in RoundTripPrices :
       \E r \in {process_initialize(slope, from_u64(price), FALSE, SteadyOracle(price))} :
            /\ swap' = r.swap
            /\ pool_mint_supply' = pool_mint_supply + r.mint_amount
            /\ ops' = 2
            /\ last' = [op |-> "initialize", status |-> r.status, was_paused |-> FALSE,
                        price |-> price]
    /\ UNCHANGED <<config, balances, provider, clock>>

\* the swaps that can come next: before the round trip another trader may
\* swap once, then the trader sells amount_in, then sells back what was paid
RoundTripLegs ==
    IF ops = 4
    THEN {[leg |-> "back", swap_direction |-> Opposite(last.input.swap_direction),
           amount_in |-> last.there.amount_out]}
    ELSE {[leg |-> leg, swap_direction |-> input.swap_direction,
           amount_in |-> input.amount_in] :
              leg \in IF ops = 2 THEN {"before", "there"} ELSE {"there"},
              input \in RoundTripSwaps}

\* what the round trip remembers of the swap just made
RoundTripRecord(input, r) ==
    IF r.status # "Ok" \/ input.leg = "before"
    THEN [op |-> input.leg, status |-> r.status, was_paused |-> FALSE,
          price |-> last.price]
    ELSE IF input.leg = "there"
    THEN [op |-> "there", status |-> r.status, was_paused |-> FALSE,
          price |-> last.price,
          input |-> [swap_direction |-> input.swap_direction,
                     amount_in |-> input.amount_in],
          stored_price |-> swap.pool_state.market_price, there |-> r.computed]
    ELSE [op |-> "back", status |-> r.status, was_paused |-> FALSE,
          price |-> last.price, input |-> last.input,
          stored_price |-> last.stored_price, there |-> last.there,
          back |-> r.computed]

\* process_swap, as a leg of the round trip
RoundTripSwap ==
    /\ ops \in {2, 3, 4}
    /\ \E input \in RoundTripLegs :
       \E overflow_checks \in BOOLEAN :
       \E r \in {process_swap(input.amount_in, 0, input.swap_direction, "token_a",
                              AdminDestination(swap, input.swap_direction, "token_a"),
                              SteadyOracle(last.price), overflow_checks)} :
            /\ swap' = r.swap
            /\ balances' = r.balances
            /\ ops' = IF input.leg = "before" THEN 3
                      ELSE IF input.leg = "there" /\ r.status = "Ok" THEN 4
                      ELSE 5
            /\ last' = RoundTripRecord(input, r)
    /\ UNCHANGED <<config, pool_mint_supply, provider, clock>>

NextRoundTrip ==
    \/ ConfigureZeroFees
    \/ InitializeSteady
    \/ RoundTripSwap

RoundTripSpec == InitRoundTrip /\ [][NextRoundTrip]_vars

\* both swaps of the round trip succeeded at the market price the pool recorded
RoundTripAtSteadyPrice ==
    /\ last.op = "back"
    /\ last.status = "Ok"
    /\ last.there.market_price = last.stored_price
    /\ last.back.market_price = last.stored_price

\* C30: with zero fees and an unchanged market price, a trader who sells x
\* base tokens and at once sells the quote tokens received back to the pool
\* never ends with more than x base tokens, and likewise for a round trip
\* that starts with quote tokens.
C30_RoundTripNoGain ==
    RoundTripAtSteadyPrice => last.back.amount_out <= last.input.amount_in

----------------------------------------------------------------------------
(* Swaps under every Fees record the admin instructions accept.            *)

\* Fees records passed to initialize and to set_new_fees
AcceptedFees ==
    {DEFAULT_TEST_FEES,
     ZeroFees,
     [DEFAULT_TEST_FEES EXCEPT !.trade_fee_numerator = 100],
     [DEFAULT_TEST_FEES EXCEPT !.trade_fee_numerator = 150],
     [DEFAULT_TEST_FEES EXCEPT !.admin_trade_fee_numerator = 2],
     [DEFAULT_TEST_FEES EXCEPT !.admin_trade_fee_numerator = 3],
     NoFees}

\* what the trader sells
FeeSwapInputs ==
    {[amount_in |-> 100, swap_direction |-> "SellBase"],
     [amount_in |-> 1, swap_direction |-> "SellBase"],
     [amount_in |-> 1000, swap_direction |-> "SellQuote"]}

\* an upper bound on the instructions processed
FeeSwapMaxOps == 5

InitFeeSwap ==
    /\ config = EmptyConfig
    /\ swap = EmptySwap
    /\ balances \in InitialBalances
    /\ pool_mint_supply = 0
    /\ provider = EmptyProvider
    /\ clock = [unix_timestamp |-> 1, slot |-> 10]
    /\ ops = 0
    /\ last = NoInstruction

\* admin.rs initialize, with any Fees record
ConfigureFees ==
    /\ ops < FeeSwapMaxOps
    /\ \E fees \in AcceptedFees :
       \E r \in {initialize([key |-> "admin", is_signer |-> TRUE], fees,
                            DEFAULT_TEST_REWARDS)} :
            /\ config' = r.config
            /\ ops' = ops + 1
            /\ last' = [op |-> "initialize_config", status |-> r.status,
                        was_paused |-> swap.is_paused]
    /\ UNCHANGED <<swap, balances, pool_mint_supply, provider, clock>>

\* process_initialize at the oracle's price
InitializeWithFees ==
    /\ ops < FeeSwapMaxOps
    /\ \E r \in {process_initialize(500000000, from_u64(100), FALSE,
                                    Oracle("fresh100", clock))} :
            /\ swap' = r.swap
            /\ pool_mint_supply' = pool_mint_supply + r.mint_amount
            /\ ops' = ops + 1
            /\ last' = [op |-> "initialize", status |-> r.status,
                        was_paused |-> swap.is_paused]
    /\ UNCHANGED <<config, balances, provider, clock>>

\* admin.rs set_new_fees by the admin, with any Fees record
SetAcceptedFees ==
    /\ ops < FeeSwapMaxOps
    /\ \E new_fees \in AcceptedFees :
       \E r \in {set_new_fees([key |-> "admin", is_signer |-> TRUE], new_fees)} :
            /\ config' = r.config
            /\ swap' = r.swap
            /\ ops' = ops + 1
            /\ last' = [op |-> "set_new_fees", status |-> r.status,
                        was_paused |-> swap.is_paused]
    /\ UNCHANGED <<balances, pool_mint_supply, provider, clock>>

\* process_swap under the fees in force
SwapWithFees ==
    /\ ops < FeeSwapMaxOps
    /\ \E input \in FeeSwapInputs :
       \E overflow_checks \in BOOLEAN :
       \E r \in {process_swap(input.amount_in, 0, input.swap_direction, "token_a",
                              AdminDestination(swap, input.swap_direction, "token_a"),
                              Oracle("fresh100", clock), overflow_checks)} :
            /\ swap' = r.swap
            /\ balances' = r.balances
            /\ ops' = ops + 1
            /\ last' = IF r.status = "Ok"
                       THEN [op |-> "swap", status |-> r.status,
                             was_paused |-> swap.is_paused, input |-> input,
                             fees |-> swap.fees, computed |-> r.computed]
                       ELSE [op |-> "swap", status |-> r.status,
                             was_paused |-> swap.is_paused]
    /\ UNCHANGED <<config, pool_mint_supply, provider, clock>>

NextFeeSwap ==
    \/ ConfigureFees
    \/ InitializeWithFees
    \/ SetAcceptedFees
    \/ SwapWithFees

FeeSwapSpec == InitFeeSwap /\ [][NextFeeSwap]_vars

\* C31: in every successful swap admin_fee <= trade_fee <= receive_amount, so
\* amount_out + admin_fee never exceeds the amount the curve computed, for
\* every Fees record that initialize or set_new_fees accepts.
C31_FeesWithinReceived ==
    (last.op = "swap" /\ last.status = "Ok") =>
        /\ last.computed.admin_fee <= last.computed.trade_fee
        /\ last.computed.trade_fee <= last.computed.receive_amount
        /\ last.computed.amount_out + last.computed.admin_fee
               <= last.computed.receive_amount

----------------------------------------------------------------------------
(* A provider deposits and at once redeems the shares the deposit minted.  *)

\* pools the deposit is made to: slope, scaled by WAD, and initial price
RedeemPools ==
    {[slope |-> 500000000, price |-> 100], [slope |-> 0, price |-> 120]}

\* swaps made before the deposit
RedeemSwaps ==
    {[amount_in |-> 100, swap_direction |-> "SellBase"],
     [amount_in |-> 5000, swap_direction |-> "SellQuote"]}

\* token amounts deposited
RedeemDeposits ==
    {[token_a_amount |-> 7, token_b_amount |-> 100000],
     [token_a_amount |-> 100, token_b_amount |-> 10000],
     [token_a_amount |-> 100, token_b_amount |-> 12000],
     [token_a_amount |-> 1000, token_b_amount |-> 100000],
     [token_a_amount |-> 1, token_b_amount |-> 333],
     [token_a_amount |-> 100, token_b_amount |-> 0],
     [token_a_amount |-> 0, token_b_amount |-> 10000]}

\* the oracle at each instruction
RedeemOracles == {"unknown", "fresh120"}

InitRedeem ==
    /\ config = EmptyConfig
    /\ swap = EmptySwap
    /\ balances \in InitialBalances
    /\ pool_mint_supply = 0
    /\ provider = EmptyProvider
    /\ clock = [unix_timestamp |-> 1, slot |-> 10]
    /\ ops = 0
    /\ last = NoInstruction

\* process_initialize: the pool gets its first LP supply
RedeemInitialize ==
    /\ ops = 0
    /\ config.is_initialized
    /\ provider.is_initialized
    /\ \E pool \in RedeemPools :
       \E r \in {process_initialize(pool.slope, from_u64(pool.price), FALSE,
                                    Oracle("unknown", clock))} :
            /\ swap' = r.swap
            /\ pool_mint_supply' = pool_mint_supply + r.mint_amount
            /\ ops' = 1
            /\ last' = [op |-> "initialize", status |-> r.status, was_paused |-> FALSE]
    /\ UNCHANGED <<config, balances, provider, clock>>

\* process_swap by a trader, before the deposit
RedeemSwap ==
    /\ ops = 1
    /\ \E input \in RedeemSwaps, oracle \in RedeemOracles :
       \E overflow_checks \in BOOLEAN :
       \E r \in {process_swap(input.amount_in, 0, input.swap_direction, "token_a",
                              AdminDestination(swap, input.swap_direction, "token_a"),
                              Oracle(oracle, clock), overflow_checks)} :
            /\ swap' = r.swap
            /\ balances' = r.balances
            /\ ops' = 2
            /\ last' = [op |-> "swap", status |-> r.status, was_paused |-> FALSE]
    /\ UNCHANGED <<config, pool_mint_supply, provider, clock>>

\* process_deposit of (token_a_amount, token_b_amount): the first follows the
\* initialization or the swap, the second follows the first redemption
RedeemDeposit ==
    /\ ops \in {1, 2, 4}
    /\ \E input \in RedeemDeposits, oracle \in RedeemOracles :
       \E overflow_checks \in BOOLEAN :
       \E r \in {process_deposit(input.token_a_amount, input.token_b_amount, 0,
                                 Oracle(oracle, clock), overflow_checks)} :
            /\ swap' = r.swap
            /\ provider' = r.provider
            /\ balances' = r.balances
            /\ pool_mint_supply' = pool_mint_supply + r.pool_mint_amount
            /\ ops' = IF r.status # "Ok" THEN 8 ELSE IF ops = 4 THEN 6 ELSE 3
            /\ last' = IF r.status = "Ok"
                       THEN [op |-> "deposit", status |-> r.status, was_paused |-> FALSE,
                             input |-> input, supply_before |-> pool_mint_supply,
                             pool_mint_amount |-> r.pool_mint_amount]
                       ELSE [op |-> "deposit", status |-> r.status, was_paused |-> FALSE]
    /\ UNCHANGED <<config, clock>>

\* process_withdraw of exactly the shares the deposit minted
RedeemWithdraw ==
    /\ ops \in {3, 6}
    /\ \E oracle \in RedeemOracles :
       \E overflow_checks \in BOOLEAN :
       \E r \in {process_withdraw(last.pool_mint_amount, 0, 0, swap.admin_fee_key_a,
                                  swap.admin_fee_key_b, Oracle(oracle, clock),
                                  overflow_checks)} :
            /\ swap' = r.swap
            /\ provider' = r.provider
            /\ balances' = r.balances
            /\ pool_mint_supply' = pool_mint_supply - r.burnt
            /\ ops' = ops + 1
            /\ last' = IF r.status = "Ok"
                       THEN [op |-> "redeem", status |-> r.status, was_paused |-> FALSE,
                             input |-> last.input, supply_before |-> last.supply_before,
                             pool_mint_amount |-> last.pool_mint_amount,
                             computed |-> r.computed]
                       ELSE [op |-> "redeem", status |-> r.status, was_paused |-> FALSE]
    /\ UNCHANGED <<config, clock>>

NextRedeem ==
    \/ AdminInitialize
    \/ InitLiquidityProvider
    \/ RedeemInitialize
    \/ RedeemSwap
    \/ RedeemDeposit
    \/ RedeemWithdraw

RedeemSpec == InitRedeem /\ [][NextRedeem]_vars

\* C32: on a pool with outstanding LP supply, depositing (a, b) and at once
\* redeeming exactly the shares that deposit minted returns, before fees, at
\* most a base tokens and at most b quote tokens.
C32_RedeemWithinDeposit ==
    (last.op = "redeem" /\ last.status = "Ok" /\ last.supply_before > 0) =>
        /\ last.computed.base_amount <= last.input.token_a_amount
        /\ last.computed.quote_amount <= last.input.token_b_amount


\* C35: a successful deposit that takes a positive amount of either token from
\* the depositor mints at least one LP share.
C35_DepositMintsShares ==
    (last.op = "deposit" /\ last.status = "Ok"
        /\ (last.input.token_a_amount > 0 \/ last.input.token_b_amount > 0)) =>
        last.pool_mint_amount > 0

----------------------------------------------------------------------------
(* The internal TWAP oracle: a pool with is_open_twap set, swaps at          *)
(* different times, and the mid prices added to base_price_cumulative_last.  *)

TwapMaxTime == 4

TwapMaxOps == 2

\* the timestamps a pool is initialized at
GenesisTimes == {0, 1, 2}

TwapSwaps ==
    {[amount_in |-> 100, swap_direction |-> "SellBase"],
     [amount_in |-> 20000, swap_direction |-> "SellQuote"]}

TwapOracles == {"unknown", "stale", "fresh120"}

InitTwap ==
    /\ config = EmptyConfig
    /\ swap = EmptySwap
    /\ balances \in InitialBalances
    /\ pool_mint_supply = 0
    /\ provider = EmptyProvider
    /\ clock \in {[unix_timestamp |-> t, slot |-> 10] : t \in GenesisTimes}
    /\ ops = 0
    /\ last = NoInstruction

\* process_initialize with is_open_twap set
TwapInitialize ==
    /\ ops = 0
    /\ config.is_initialized
    /\ provider.is_initialized
    /\ \E r \in {process_initialize(500000000, from_u64(100), TRUE,
                                    Oracle("unknown", clock))} :
            /\ swap' = r.swap
            /\ pool_mint_supply' = pool_mint_supply + r.mint_amount
            /\ ops' = 1
            /\ last' = [op |-> "initialize", status |-> r.status, was_paused |-> FALSE,
                        genesis |-> clock.unix_timestamp,
                        latest |-> clock.unix_timestamp, observed |-> {}]
    /\ UNCHANGED <<config, balances, provider, clock>>

TwapTick ==
    /\ ops >= 1
    /\ clock.unix_timestamp < TwapMaxTime
    /\ clock' = [unix_timestamp |-> clock.unix_timestamp + 1, slot |-> clock.slot + 1]
    /\ UNCHANGED <<accounts, ops, last>>

\* get_new_market_price, lines 968-977: the mid price this call adds to
\* base_price_cumulative_last, if it adds one
Accumulates(token_swap, clk, overflow_checks) ==
    /\ token_swap.is_open_twap
    /\ clk.unix_timestamp >= 0
    /\ \/ clk.unix_timestamp > token_swap.block_timestamp_last
       \/ clk.unix_timestamp < token_swap.block_timestamp_last /\ ~overflow_checks
    /\ ~is_zero(token_swap.pool_state.base_reserve)
    /\ ~is_zero(token_swap.pool_state.quote_reserve)

\* what an instruction leaves in the record: the timestamp the pool was
\* initialized at, the timestamp of the latest successful instruction, the mid
\* prices accumulated so far and, for a swap, the TWAP of the moment
TwapRecord(op, oracle, r, overflow_checks) ==
    [op |-> op, status |-> r.status, was_paused |-> FALSE,
     genesis |-> last.genesis,
     latest |-> IF r.status = "Ok" THEN clock.unix_timestamp ELSE last.latest,
     observed |-> IF r.status = "Ok" /\ Accumulates(swap, clock, overflow_checks)
                  THEN last.observed \cup {get_mid_price(swap.pool_state).price}
                  ELSE last.observed,
     oracle |-> oracle,
     twap |-> Twap(swap, r.swap.base_price_cumulative_last, clock)]

\* process_swap
TwapSwap ==
    /\ ops >= 1
    /\ ops <= TwapMaxOps
    /\ \E input \in TwapSwaps, oracle \in TwapOracles :
       \E overflow_checks \in BOOLEAN :
       \E r \in {process_swap(input.amount_in, 0, input.swap_direction, "token_a",
                              AdminDestination(swap, input.swap_direction, "token_a"),
                              Oracle(oracle, clock), overflow_checks)} :
            /\ swap' = r.swap
            /\ balances' = r.balances
            /\ ops' = ops + 1
            /\ last' = TwapRecord("swap", oracle, r, overflow_checks)
    /\ UNCHANGED <<config, pool_mint_supply, provider, clock>>

\* process_deposit
TwapDeposit ==
    /\ ops >= 1
    /\ ops <= TwapMaxOps
    /\ \E oracle \in TwapOracles :
       \E overflow_checks \in BOOLEAN :
       \E r \in {process_deposit(100, 10000, 0, Oracle(oracle, clock), overflow_checks)} :
            /\ swap' = r.swap
            /\ provider' = r.provider
            /\ balances' = r.balances
            /\ pool_mint_supply' = pool_mint_supply + r.pool_mint_amount
            /\ ops' = ops + 1
            /\ last' = TwapRecord("deposit", oracle, r, overflow_checks)
    /\ UNCHANGED <<config, clock>>

\* process_withdraw
TwapWithdraw ==
    /\ ops >= 1
    /\ ops <= TwapMaxOps
    /\ \E oracle \in TwapOracles :
       \E overflow_checks \in BOOLEAN :
       \E r \in {process_withdraw(10, 0, 0, swap.admin_fee_key_a, swap.admin_fee_key_b,
                                  Oracle(oracle, clock), overflow_checks)} :
            /\ swap' = r.swap
            /\ provider' = r.provider
            /\ balances' = r.balances
            /\ pool_mint_supply' = pool_mint_supply - r.burnt
            /\ ops' = ops + 1
            /\ last' = TwapRecord("withdraw", oracle, r, overflow_checks)
    /\ UNCHANGED <<config, clock>>

NextTwap ==
    \/ AdminInitialize
    \/ InitLiquidityProvider
    \/ TwapInitialize
    \/ TwapTick
    \/ TwapSwap
    \/ TwapDeposit
    \/ TwapWithdraw

TwapSpec == InitTwap /\ [][NextTwap]_vars

\* the swap took the TWAP as candidate: the oracle was unavailable
TookTwap ==
    /\ last.op = "swap"
    /\ last.status = "Ok"
    /\ last.oracle \in FailingOracles
    /\ last.observed # {}

\* C33: when the oracle is unavailable and is_open_twap is set, the TWAP taken
\* as the market-price candidate, base_price_cumulative / (now -
\* cumulative_ticks), lies between the smallest and the largest mid price
\* accumulated into base_price_cumulative since initialization.
C33_TwapIsAverage ==
    TookTwap =>
        /\ ~IsErr(last.twap)
        /\ \E lo \in last.observed : BCmp(lo, last.twap) <= 0
        /\ \E hi \in last.observed : BCmp(last.twap, hi) <= 0

\* C37: after any sequence of successful swaps, deposits and withdraws executed
\* at non-decreasing timestamps, block_timestamp_last equals the timestamp of
\* the latest operation and cumulative_ticks equals block_timestamp_last minus
\* the timestamp at which the pool was initialized.
C37_TicksSinceGenesis ==
    ops >= 1 =>
        /\ swap.block_timestamp_last = last.latest
        /\ swap.cumulative_ticks = swap.block_timestamp_last - last.genesis

\* a withdrawal succeeded some time after a deposit, which came some time
\* after the initialization
C37_Witness ==
    /\ last.op = "withdraw"
    /\ last.status = "Ok"
    /\ last.genesis >= 1
    /\ last.latest = clock.unix_timestamp
    /\ swap.cumulative_ticks >= 2
    /\ provider.positions # <<>>

----------------------------------------------------------------------------
(* One position refreshed after delays of any length, shorter and longer    *)
(* than the claim period.                                                   *)

LateMaxPeriods == 5

RefreshDelays ==
    {MIN_CLAIM_PERIOD \div 2, MIN_CLAIM_PERIOD - 1, MIN_CLAIM_PERIOD,
     MIN_CLAIM_PERIOD + 1, 2 * MIN_CLAIM_PERIOD, 3 * MIN_CLAIM_PERIOD}

InitLate ==
    /\ config = EmptyConfig
    /\ swap = EmptySwap
    /\ balances \in InitialBalances
    /\ pool_mint_supply = 0
    /\ clock = [unix_timestamp |-> 0, slot |-> 0]
    /\ ops = 0
    /\ \E liquidity_amount \in RewardLiquidity, reward_ratio \in RewardRatios :
          /\ provider = lp_deposit([is_initialized |-> TRUE, owner |-> "user",
                                    positions |-> <<>>],
                                   POOL, liquidity_amount, 0)
          /\ last = [op |-> "lp_deposit", status |-> "Ok", was_paused |-> FALSE,
                     reward_ratio |-> reward_ratio]

\* process_refresh_liquidity_obligation, some time after the last refresh
LateRefresh ==
    /\ last.status = "Ok"
    /\ \E delay \in RefreshDelays :
          /\ clock.unix_timestamp + delay <= LateMaxPeriods * MIN_CLAIM_PERIOD
          /\ clock' = [unix_timestamp |-> clock.unix_timestamp + delay,
                       slot |-> clock.slot + 1]
          /\ \E r \in {lp_refresh(provider, POOL, last.reward_ratio,
                                  clock.unix_timestamp + delay)} :
                /\ provider' = IF Failed(r) THEN provider ELSE r
                /\ last' = [op |-> "lp_refresh",
                            status |-> IF Failed(r) THEN r.err ELSE "Ok",
                            was_paused |-> FALSE, reward_ratio |-> last.reward_ratio,
                            delay |-> delay]
    /\ UNCHANGED <<config, swap, balances, pool_mint_supply, ops>>

NextLate == LateRefresh

LateSpec == InitLate /\ [][NextLate]_vars

\* C34: after calc_and_update_rewards(ratio, now) succeeds on a position with
\* liquidity_amount > 0, next_claim_ts > now, however long after
\* next_claim_ts the refresh arrives.
C34_NextClaimInFuture ==
    (last.op = "lp_refresh" /\ last.status = "Ok"
        /\ PositionOf(provider, POOL).liquidity_amount > 0) =>
        PositionOf(provider, POOL).next_claim_ts > clock.unix_timestamp

----------------------------------------------------------------------------
\* the position find_or_add_position appends for a pool the provider does not
\* hold
FreshPosition(pool, now) ==
    [pool |-> pool, liquidity_amount |-> 0, rewards_owed |-> 0,
     rewards_estimated |-> 0, cumulative_interest |-> 0,
     last_update_ts |-> now, next_claim_ts |-> now + MIN_CLAIM_PERIOD]

\* what find_or_add_position answers on this provider for this pool
FindsOrAdds(self, pool, now) ==
    LET found == find_or_add_position(self, pool, now)
    IN  IF \E i \in 1..Len(self.positions) : self.positions[i].pool = pool
        THEN /\ found.provider = self
             /\ found.index \in 1..Len(self.positions)
             /\ self.positions[found.index].pool = pool
        ELSE /\ found.provider.positions =
                    Append(self.positions, FreshPosition(pool, now))
             /\ found.index = Len(self.positions) + 1

\* C36: find_or_add_position(pool, now) returns the provider's existing
\* position for that pool key unchanged when one exists, and otherwise
\* appends a fresh position (liquidity 0, no rewards, last_update_ts = now,
\* next_claim_ts = now + MIN_CLAIM_PERIOD); in every reachable state the
\* provider's positions have pairwise distinct pool keys.
C36_DistinctPoolKeys ==
    /\ \A pool \in AllPools : FindsOrAdds(provider, pool, clock.unix_timestamp)
    /\ \A i, j \in 1..Len(provider.positions) :
          i # j => provider.positions[i].pool # provider.positions[j].pool

\* a provider that started with no position deposited into two pools, and
\* then again into a pool it already held
C36_Witness ==
    /\ last.op = "lp_deposit"
    /\ last.status = "Ok"
    /\ Len(last.before.positions) = 2
    /\ Len(provider.positions) = 2
    /\ \E i \in 1..2 : last.before.positions[i].pool = last.pool
    /\ PositionOf(provider, last.pool).liquidity_amount >
          PositionOf(last.before, last.pool).liquidity_amount

----------------------------------------------------------------------------
(* Two pools and one liquidity provider. The pool record, custody accounts  *)
(* and mint of this model are those of pool POOL; an instruction on the     *)
(* other pool names the other pool's accounts and the same provider record, *)
(* so that it acts on this state through the provider record alone.         *)

OTHER_POOL == "pool_11"

CommuteMaxOps == 3

InitCommute ==
    /\ config = EmptyConfig
    /\ swap = EmptySwap
    /\ balances \in InitialBalances
    /\ pool_mint_supply = 0
    /\ provider \in LpProviders
    /\ clock = [unix_timestamp |-> 1, slot |-> 10]
    /\ ops = 0
    /\ last = NoInstruction

\* process_initialize of POOL
CommuteInitialize ==
    /\ ops = 0
    /\ config.is_initialized
    /\ \E slope \in {0, 500000000} :
       \E r \in {process_initialize(slope, from_u64(100), FALSE,
                                    Oracle("fresh100", clock))} :
            /\ swap' = r.swap
            /\ pool_mint_supply' = pool_mint_supply + r.mint_amount
            /\ ops' = 1
            /\ last' = [op |-> "initialize", status |-> r.status, was_paused |-> FALSE]
    /\ UNCHANGED <<config, balances, provider, clock>>

\* process_swap on POOL
CommuteSwap ==
    /\ ops >= 1
    /\ ops <= CommuteMaxOps
    /\ \E input \in FeeSwapInputs :
       \E overflow_checks \in BOOLEAN :
       \E r \in {process_swap(input.amount_in, 0, input.swap_direction, "token_a",
                              AdminDestination(swap, input.swap_direction, "token_a"),
                              Oracle("fresh100", clock), overflow_checks)} :
            /\ swap' = r.swap
            /\ balances' = r.balances
            /\ ops' = ops + 1
            /\ last' = [op |-> "swap", status |-> r.status, was_paused |-> FALSE]
    /\ UNCHANGED <<config, pool_mint_supply, provider, clock>>

\* process_deposit on POOL
CommuteDeposit ==
    /\ ops >= 1
    /\ ops <= CommuteMaxOps
    /\ \E amount \in {10, 100} :
       \E overflow_checks \in BOOLEAN :
       \E r \in {process_deposit(amount, 100 * amount, 0, Oracle("fresh100", clock),
                                 overflow_checks)} :
            /\ swap' = r.swap
            /\ provider' = r.provider
            /\ balances' = r.balances
            /\ pool_mint_supply' = pool_mint_supply + r.pool_mint_amount
            /\ ops' = ops + 1
            /\ last' = [op |-> "deposit", status |-> r.status, was_paused |-> FALSE]
    /\ UNCHANGED <<config, clock>>

\* process_withdraw on POOL
CommuteWithdraw ==
    /\ ops >= 1
    /\ ops <= CommuteMaxOps
    /\ \E amount \in {10, 100} :
       \E overflow_checks \in BOOLEAN :
       \E r \in {process_withdraw(amount, 0, 0, swap.admin_fee_key_a, swap.admin_fee_key_b,
                                  Oracle("fresh100", clock), overflow_checks)} :
            /\ swap' = r.swap
            /\ provider' = r.provider
            /\ balances' = r.balances
            /\ pool_mint_supply' = pool_mint_supply - r.burnt
            /\ ops' = ops + 1
            /\ last' = [op |-> "withdraw", status |-> r.status, was_paused |-> FALSE]
    /\ UNCHANGED <<config, clock>>

\* what a deposit into a pool leaves of the provider record: process_deposit,
\* find_or_add_position, deposit, pack
deposit_into(self, pool, amount, current_ts) ==
    LET Deposited(r) ==
            IF ProviderPackable(r) THEN [status |-> "Ok", provider |-> r]
            ELSE [status |-> "ProgramFailedToComplete", provider |-> self]
    IN  Deposited(lp_deposit(self, pool, amount, current_ts))

\* what a withdrawal from a pool leaves of the provider record:
\* process_withdraw, find_position, withdraw, pack
withdraw_from(self, pool, amount) ==
    LET Withdrawn(r) ==
            IF Failed(r) THEN [status |-> r.err, provider |-> self]
            ELSE [status |-> "Ok", provider |-> r]
    IN  Withdrawn(lp_withdraw(self, pool, amount))

\* process_deposit on the other pool
OtherDeposit ==
    /\ ops >= 1
    /\ ops <= CommuteMaxOps
    /\ \E r \in {deposit_into(provider, OTHER_POOL, 100, clock.unix_timestamp)} :
            /\ provider' = r.provider
            /\ ops' = ops + 1
            /\ last' = [op |-> "other_deposit", status |-> r.status, was_paused |-> FALSE]
    /\ UNCHANGED <<config, swap, balances, pool_mint_supply, clock>>

\* process_withdraw on the other pool
OtherWithdraw ==
    /\ ops >= 1
    /\ ops <= CommuteMaxOps
    /\ \E amount \in {50, 100} :
       \E r \in {withdraw_from(provider, OTHER_POOL, amount)} :
            /\ provider' = r.provider
            /\ ops' = ops + 1
            /\ last' = [op |-> "other_withdraw", status |-> r.status, was_paused |-> FALSE]
    /\ UNCHANGED <<config, swap, balances, pool_mint_supply, clock>>

NextCommute ==
    \/ AdminInitialize
    \/ CommuteInitialize
    \/ CommuteSwap
    \/ CommuteDeposit
    \/ CommuteWithdraw
    \/ OtherDeposit
    \/ OtherWithdraw

CommuteSpec == InitCommute /\ [][NextCommute]_vars

\* the contents of the provider's position in a pool, if it holds one
PositionContents(self, pool) ==
    IF Holds(self, pool) THEN <<PositionOf(self, pool)>> ELSE <<>>

\* what a deposit and a withdrawal on a pool would leave, executed now:
\* whether each completes, on which the record of that pool depends, and the
\* provider's position in that pool
Outcome(pool) ==
    LET deposited == deposit_into(provider, pool, 100, clock.unix_timestamp)
        withdrawn == withdraw_from(provider, pool, 50)
    IN  <<deposited.status = "Ok", PositionContents(deposited.provider, pool),
          withdrawn.status = "Ok", PositionContents(withdrawn.provider, pool)>>

\* C38: operations on two different pools commute: an operation on one pool
\* leaves the same pool record and the same position contents whether it is
\* executed before or after an operation on the other pool.
C38_PoolsCommute ==
    [][/\ (ops' = ops + 1 /\ last'.op \in {"other_deposit", "other_withdraw"}) =>
             Outcome(POOL)' = Outcome(POOL)
       /\ (ops' = ops + 1 /\ last'.op \in {"swap", "deposit", "withdraw"}) =>
             Outcome(OTHER_POOL)' = Outcome(OTHER_POOL)]_vars

====
